---- MODULE Spec2Model ----
(***************************************************************************)
(* A model of UnityLogParser (src/log_parser.py): parse_log_file reads a   *)
(* log, makes one forward pass over its lines and writes records into an   *)
(* SQLite store through one connection.                                    *)
(*                                                                         *)
(* A line of text is modelled by its structure, as the regular expressions *)
(* of the parser see it:                                                   *)
(*   w     <<>> or <<n>>: the "[Workern] " prefix at the start of the line *)
(*   kind  "start"   Start importing P using Guid(G)[ (I)][ -> (artifact   *)
(*                   id: 'A')][ in N seconds][ using Guid(G2)]             *)
(*         "imp"     (I)                                                   *)
(*         "done"    -> (artifact id: 'A') in N seconds                    *)
(*         "refresh" Asset Pipeline Refresh (id=X): Total: N seconds -     *)
(*                   Initiated by R                                        *)
(*         "drhdr"   Domain Reload Profiling:[ (Nms)]                      *)
(*         "step"    <depth tabs>Name (Nms)                                *)
(*         "asm"     Processing assembly P, with D defines and R references*)
(*         "utp"     ##utp:{...}                                           *)
(*         "op"      T Operation : " ## N ## " took N sec                  *)
(*         "tundra"  *** Tundra P (N seconds), U items updated, E evaluated*)
(*         "plain"   any other text                                        *)
(* A path is [dirs, name, rest, casing]: dirs is the number of '/', name the*)
(* pieces of its last segment between dots (<<"a","png">> is a.png), rest  *)
(* the text a lazy (.+?) swallowed behind the name (<<>> when none).       *)
(* casing is how the letters of its extension are written. A number token  *)
(* ([\d.]+) is the sequence of its characters.                             *)
(***************************************************************************)
EXTENDS Integers, Sequences, FiniteSets, TLC

VARIABLES
    pc,                  \* where parse_log_file stands
    lines,               \* the lines read from the file
    i,                   \* number of lines the pass has handled
    log_id,              \* id of the session row of the running parse
    worker_states,       \* worker number -> started import
    pending_imports,     \* insertion-ordered dict guid -> pending import
    in_domain_reload,
    domain_reload_lines,
    domain_reload_start,
    store,               \* the tables as the connection sees them
    durable,             \* the tables as committed (what a crash leaves)
    file,                \* the watched file: whether it exists, its content
    last_position,       \* FileWatcherService.last_position
    calls,               \* what the get_new_lines calls returned, in order
    watch                \* the watcher's life: created or not, the file's
                         \* size at creation, whether the file was truncated

vars == <<pc, lines, i, log_id, worker_states, pending_imports, in_domain_reload,
          domain_reload_lines, domain_reload_start, store, durable,
          file, last_position, calls, watch>>

None == "None"

\* a line without a number token
NoSecs == <<>>

----------------------------------------------------------------------------
(* Bounds *)

MaxLines == 3
\* the most leading tabs of a text line
MaxTabs == 2

\* longest input of each of two parses with one instance
MaxReuseLines == 2

----------------------------------------------------------------------------
(* Text helpers *)

RECURSIVE CountOf(_, _)
CountOf(c, t) ==
    IF t = <<>> THEN 0
    ELSE (IF Head(t) = c THEN 1 ELSE 0) + CountOf(c, Tail(t))

DigitVal(c) ==
    CASE c = "0" -> 0 [] c = "1" -> 1 [] c = "2" -> 2 [] c = "3" -> 3
      [] c = "4" -> 4 [] c = "5" -> 5 [] c = "6" -> 6 [] c = "7" -> 7
      [] c = "8" -> 8 [] c = "9" -> 9

\* float(tok) on a token of [\d.]+ succeeds iff it has at most one dot and
\* at least one digit.
FloatOk(tok) ==
    /\ CountOf(".", tok) <= 1
    /\ Len(tok) - CountOf(".", tok) >= 1

RECURSIVE IntVal(_)
IntVal(t) ==
    IF t = <<>> THEN 0
    ELSE IntVal(SubSeq(t, 1, Len(t) - 1)) * 10 + DigitVal(t[Len(t)])

DotPos(tok) ==
    IF CountOf(".", tok) = 0 THEN Len(tok) + 1
    ELSE CHOOSE k \in 1..Len(tok) : tok[k] = "."

\* float(tok) * 1000 for a token with at most three decimals
Ms(tok) ==
    LET p    == DotPos(tok)
        int  == SubSeq(tok, 1, p - 1)
        frac == SubSeq(tok, p + 1, Len(tok))
        pad  == SubSeq(frac \o <<"0", "0", "0">>, 1, 3)
    IN IntVal(int) * 1000 + IntVal(pad)

\* A text whose case matters is [low, casing]: its letters in lower case and
\* how they are written: "lower" (png), "upper" (PNG), "title" (Png) or
\* "mixed" (pNg).
CasePatterns == {"lower", "upper", "title", "mixed"}

\* str.lower() leaving the text as it is written
LowerAsWritten(t) == t

\* str.lower()
Lower(t) == [t EXCEPT !.casing = "lower"]

\* the text as a key of a table whose keys are written in lower case: a text
\* with an upper-case letter equals none of them
TextOf(t) == IF t.casing = "lower" THEN t.low ELSE "?"

----------------------------------------------------------------------------
(* Paths *)

\* Path(path).name: the last segment of the path
LastPart(path) == [path EXCEPT !.dirs = 0]

\* last_part.startswith('com.')
StartsWithCom(path) == Len(path.name) >= 2 /\ path.name[1] = "com"

\* '.' in last_part
HasDot(path) == Len(path.name) >= 2

\* asset_path.count('/')
SlashCount(path) == path.dirs

\* Path(path).suffix: the text behind the last dot, as written
RawSuffix(path) == [low |-> path.name[Len(path.name)], casing |-> path.casing]

\* Path(path).suffix.lower(): "" without a dot; the text behind the last dot
\* otherwise, which is no known extension when it carries swallowed text
Suffix(path) ==
    IF ~HasDot(path) THEN ""
    ELSE IF path.rest # <<>> THEN "?"
    ELSE TextOf(Lower(RawSuffix(path)))

----------------------------------------------------------------------------
(* _categorize_asset *)

\* the keys of ext_display_map, without their dot
ext_display_map ==
    {"shader", "compute", "cginc", "hlsl", "png", "jpg", "jpeg", "tga", "psd",
     "exr", "hdr", "tif", "tiff", "bmp", "fbx", "obj", "blend", "mat", "prefab",
     "unity", "asset", "controller", "anim", "physicmaterial", "cs", "js", "dll",
     "asmdef", "ttf", "otf", "wav", "mp3", "ogg"}

category_map(ext) ==
    CASE ext \in {"shader", "compute", "cginc", "hlsl"} -> "Rendering"
      [] ext \in {"png", "jpg", "jpeg", "tga", "psd", "exr", "hdr", "tif",
                  "tiff", "bmp"} -> "Textures"
      [] ext = "mat" -> "Materials"
      [] ext = "prefab" -> "Prefabs"
      [] ext = "unity" -> "Scenes"
      [] ext \in {"fbx", "obj", "blend"} -> "3D Models"
      [] ext \in {"cs", "js"} -> "Scripts"
      [] ext \in {"dll", "asmdef"} -> "Assemblies"
      [] ext = "asset" -> "Scriptable Objects"
      [] ext \in {"controller", "anim"} -> "Animation"
      [] ext = "physicmaterial" -> "Physics"
      [] ext \in {"ttf", "otf"} -> "Fonts"
      [] ext \in {"wav", "mp3", "ogg"} -> "Audio"
      [] OTHER -> "Other"

\* _categorize_asset(path, importer_type) -> (asset_type, asset_category)
categorize_asset(path, importer_type) ==
    LET ext == Suffix(path)
        asset_type == IF ext \in ext_display_map THEN ext
                      ELSE IF ext # "" THEN ext ELSE "no-extension"
        category == category_map(ext)
    IN [type |-> asset_type,
        category |-> IF importer_type # None /\ importer_type # "-1"
                        /\ importer_type = "TextureImporter"
                     THEN "Textures" ELSE category]

\* importer_map.get(ext, 'UnknownImporter')
importer_map(ext) ==
    CASE ext = "fbx" -> "FBXImporter"
      [] ext \in {"png", "jpg", "jpeg", "exr", "tga", "hdr", "tif", "tiff",
                  "bmp"} -> "TextureImporter"
      [] ext \in {"mat", "anim", "controller"} -> "NativeFormatImporter"
      [] ext = "prefab" -> "PrefabImporter"
      [] ext \in {"mp4", "mov", "avi", "webm", "m4v", "mpg", "mpeg"}
            -> "VideoClipImporter"
      [] ext \in {"wav", "mp3", "ogg", "aif", "aiff", "flac"} -> "AudioImporter"
      [] OTHER -> "UnknownImporter"

----------------------------------------------------------------------------
(* The regular expressions, on the structure of a line *)

HasWorker(l) == l.w # <<>>

\* every worker prefix read as worker 0
WorkerNumZero(l) == 0

\* int(worker_match.group(1))
WorkerNum(l) == l.w[1]

\* the importer tokens of the model that are not made of [A-Za-z0-9_] only
NonWordTokens == {"-1"}

\* importer_type.endswith('Importer'), on the tokens of the model
EndsWithImporter(tok) ==
    tok \in {"TextureImporter", "DefaultImporter", "AudioImporter",
             "VideoClipImporter", "MovieImporter", "FBXImporter",
             "NativeFormatImporter", "PrefabImporter", "UnknownImporter"}

\* 'Start importing' in line
ContainsStart(l) == l.kind = "start"

\* Start importing (.+?) using Guid\(([a-f0-9]+)\) (.+?)(?: -> \(artifact id:
\* '([a-f0-9]+)'\))? in ([\d.]+) seconds
PrimaryMatch(l) ==
    l.kind = "start" /\ l.imp # None /\ l.secs # NoSecs /\ l.guid2 = None

\* Start importing (.+?) using Guid\(([a-f0-9]+)\)\s*$ : the line ends behind
\* a Guid(...). With a second Guid clause at the end of the line the lazy
\* path group swallows the first clause and the importer.
EndsWithGuid(l) ==
    l.kind = "start"
    /\ \/ l.imp = None /\ l.art = None /\ l.secs = NoSecs
       \/ l.guid2 # None

EndPath(l) ==
    IF l.guid2 # None THEN [l.path EXCEPT !.rest = <<l.guid, l.imp>>]
    ELSE l.path

EndGuid(l) == IF l.guid2 # None THEN l.guid2 ELSE l.guid

\* Start importing (.+?) using Guid\(([a-f0-9]+)\) \((\w+)\)
FallbackMatch(l) ==
    l.kind = "start" /\ l.imp # None /\ l.imp \notin NonWordTokens

\* Start importing (.+?) using Guid\(([a-f0-9]+)\) \(([A-Za-z0-9]+)\)
PendingStartMatch(l) ==
    l.kind = "start" /\ l.imp # None /\ l.imp \notin NonWordTokens

\* \(([A-Za-z0-9\-]+)\)\s*$ at the start of the worker's text
ImporterLineMatch(l) == l.kind = "imp"

\* '-> (artifact id:' in line
ContainsArtifact(l) ==
    \/ l.kind = "done"
    \/ l.kind = "start" /\ l.art # None

\* -> \(artifact id: '([a-f0-9]+)'\) in ([\d.]+) seconds
ArtifactMatch(l) ==
    \/ l.kind = "done"
    \/ l.kind = "start" /\ l.art # None /\ l.secs # NoSecs /\ l.guid2 = None

\* ^\t+.+? \(\d+ms\)
StepLineMatch(l) == l.kind = "step" /\ l.depth >= 1

\* ^(\t*)(.+?) \((\d+)ms\)
StepPatternMatch(l) ==
    \/ l.kind = "step"
    \/ l.kind = "drhdr" /\ l.ms

Indent(l) == IF l.kind = "step" THEN l.depth ELSE 0

\* what _classify_line looks for in a line: 'error', 'exception' and 'warning'
\* in line.lower(), a leading '[', and the four markers. A text line carries
\* its features; a line of a grammar has those of its shape.
line_features(l) ==
    (IF l.kind = "text" THEN l.has ELSE {})
    \cup (IF HasWorker(l) THEN {"["} ELSE {})
    \cup (IF l.kind = "start" THEN {"Start importing"} ELSE {})
    \cup (IF l.kind = "refresh" THEN {"Asset Pipeline Refresh"} ELSE {})
    \cup (IF l.kind = "drhdr" THEN {"Domain Reload"} ELSE {})
    \cup (IF l.kind = "utp" THEN {"##utp:"} ELSE {})

\* _classify_line as it would be with the warning test in front
classify_line_warning_first(l) ==
    LET has == line_features(l)
        warning == "warning" \in has
        error == ~warning /\ has \cap {"error", "exception"} # {}
    IN [line_type |-> IF warning THEN "warning" ELSE IF error THEN "error"
                      ELSE "normal",
        indent_level |-> IF l.kind = "text" THEN l.tabs ELSE Indent(l),
        is_error |-> error, is_warning |-> warning]

\* _classify_line: (line_type, indent_level, is_error, is_warning)
classify_line(l) ==
    LET has == line_features(l)
        error == has \cap {"error", "exception"} # {}
        warning == ~error /\ "warning" \in has
    IN [line_type |->
            IF error THEN "error"
            ELSE IF warning THEN "warning"
            ELSE IF "[" \in has THEN "system"
            ELSE IF "Start importing" \in has THEN "import"
            ELSE IF "Asset Pipeline Refresh" \in has THEN "pipeline"
            ELSE IF "Domain Reload" \in has THEN "domain_reload"
            ELSE IF "##utp:" \in has THEN "telemetry"
            ELSE "normal",
        indent_level |-> IF l.kind = "text" THEN l.tabs ELSE Indent(l),
        is_error |-> error, is_warning |-> warning]

----------------------------------------------------------------------------
(* The store *)

EmptyStore ==
    [log_metadata |-> <<>>, asset_imports |-> <<>>, pipeline_refreshes |-> <<>>,
     domain_reload_steps |-> <<>>, script_compilation |-> <<>>,
     telemetry_data |-> <<>>, operations |-> <<>>, log_lines |-> <<>>]

\* INSERT INTO asset_imports; import_time_seconds is import_time_ms / 1000
InsertImport(db, lid, ln, path, guid, art, imp, ms, cat) ==
    [db EXCEPT !.asset_imports = Append(@,
        [log_id |-> lid, line_number |-> ln, asset_path |-> path,
         asset_name |-> LastPart(path), asset_type |-> cat.type,
         asset_category |-> cat.category, guid |-> guid,
         artifact_id |-> art, importer_type |-> imp,
         import_time_ms |-> ms])]

\* what a handler hands back: the store, its return value, whether it raised
Ret(db, value) == [db |-> db, ret |-> value, raised |-> FALSE]
Raise(db) == [db |-> db, ret |-> None, raised |-> TRUE]

----------------------------------------------------------------------------
(* _parse_asset_import *)

\* the skip of a package folder in the worker-format fallback
FallbackPackageSkip(path) ==
    StartsWithCom(path) /\ SlashCount(path) >= 1 /\ SlashCount(path) <= 2

\* fallback pattern 1: no importer on the line, a 1 ms placeholder
parse_fallback_worker_format(l, line_number, lid, db) ==
    LET asset_path == EndPath(l)
        guid == EndGuid(l)
        importer_type == importer_map(Suffix(asset_path))
    IN IF FallbackPackageSkip(asset_path) THEN Ret(db, None)
       ELSE IF ~HasDot(asset_path) THEN Ret(db, None)
       ELSE Ret(InsertImport(db, lid, line_number, asset_path, guid, None,
                             importer_type, 1,
                             categorize_asset(asset_path, importer_type)),
                None)

\* no importer awaits its timing on a later line
multi_line_importers_none == {}

\* the importers whose timing may come on a later line
multi_line_importers == {"VideoClipImporter", "AudioImporter", "MovieImporter"}

\* fallback pattern 2: an importer and no timing
parse_fallback_importer(l, line_number, lid, db) ==
    LET asset_path == l.path
        importer_type == IF l.imp = "-1" \/ l.imp = "" THEN None ELSE l.imp
    IN IF importer_type = "DefaultImporter" /\ ~HasDot(asset_path)
       THEN Ret(db, None)
       ELSE IF importer_type \in multi_line_importers THEN Ret(db, None)
       ELSE Ret(InsertImport(db, lid, line_number, asset_path, l.guid, None,
                             importer_type, 1,
                             categorize_asset(asset_path, importer_type)),
                "True")

\* the primary pattern's package-folder skip
PrimaryPackageSkip(path) == StartsWithCom(path) /\ SlashCount(path) <= 2

\* the primary pattern's folder skip
PrimaryFolderSkip(path, importer_type) ==
    importer_type = "DefaultImporter" /\ ~HasDot(path)

\* the primary pattern: importer and timing on the line
parse_primary(l, line_number, lid, db) ==
    IF ~FloatOk(l.secs) THEN Raise(db)
    ELSE
    LET asset_path == l.path
        importer_type == IF l.imp \in {"-1", ""} THEN None ELSE l.imp
    IN IF PrimaryPackageSkip(asset_path) THEN Ret(db, None)
       ELSE IF PrimaryFolderSkip(asset_path, importer_type) THEN Ret(db, None)
       ELSE Ret(InsertImport(db, lid, line_number, asset_path, l.guid, l.art,
                             importer_type, Ms(l.secs),
                             categorize_asset(asset_path, importer_type)),
                "True")

parse_asset_import(l, line_number, lid, db) ==
    IF PrimaryMatch(l) THEN parse_primary(l, line_number, lid, db)
    ELSE IF EndsWithGuid(l)
         THEN parse_fallback_worker_format(l, line_number, lid, db)
    ELSE IF FallbackMatch(l) THEN parse_fallback_importer(l, line_number, lid, db)
    ELSE Ret(db, None)

----------------------------------------------------------------------------
(* The other extractors *)

\* the number of lines behind the header that _parse_pipeline_refresh scans
ScanWindow == 9

\* a nullable number of a row: <<>> is NULL, <<v>> the number v
Null == <<>>

\* the breakdown fields before any summary line is seen
NoBreakdown ==
    [imports_total |-> Null, imports_actual |-> Null,
     asset_db_process_time_ms |-> Null, asset_db_callback_time_ms |-> Null,
     domain_reloads |-> Null, domain_reload_time_ms |-> Null,
     compile_time_ms |-> Null, scripting_other_ms |-> Null]

\* the if/elif chain over one scanned line: the summary field the line
\* names is set when its numbers match, and left alone otherwise
scan_summary_line(b, l) ==
    IF l.kind # "summary" \/ ~l.ok THEN b
    ELSE IF l.field = "imports"
    THEN [b EXCEPT !.imports_total = <<l.nums[1]>>,
                   !.imports_actual = <<l.nums[2]>>]
    ELSE IF l.field = "process"
    THEN [b EXCEPT !.asset_db_process_time_ms = <<l.nums[1] + l.nums[2]>>]
    ELSE IF l.field = "callback"
    THEN [b EXCEPT !.asset_db_callback_time_ms = <<l.nums[1] + l.nums[2]>>]
    ELSE [b EXCEPT !.domain_reloads = <<l.nums[1]>>,
                   !.domain_reload_time_ms = <<l.nums[2]>>,
                   !.compile_time_ms = <<l.nums[3]>>,
                   !.scripting_other_ms = <<l.nums[4]>>]

\* for line in lines[1:10]
RECURSIVE scan_summary(_, _, _)
scan_summary(b, ctx, k) ==
    IF k > Len(ctx) \/ k > ScanWindow + 1 THEN b
    ELSE scan_summary(scan_summary_line(b, ctx[k]), ctx, k + 1)

\* _parse_pipeline_refresh on the header and the lines behind it:
\* float(total) comes before the scan and the insert
parse_pipeline_refresh(ctx, start_line, lid, db) ==
    IF ~FloatOk(ctx[1].secs) THEN Raise(db)
    ELSE Ret([db EXCEPT !.pipeline_refreshes = Append(@,
                 [log_id |-> lid, line_number |-> start_line,
                  total_time_ms |-> Ms(ctx[1].secs),
                  breakdown |-> scan_summary(NoBreakdown, ctx, 2)])], None)

\* the loop of _parse_domain_reload from line k of the block on; last is
\* last_id_at_level, a row's id is its position in the table
RECURSIVE domain_reload_loop(_, _, _, _, _, _)
domain_reload_loop(ls, k, last, start_line, lid, db) ==
    IF k > Len(ls) THEN db
    ELSE IF ~StepPatternMatch(ls[k]) THEN db
    ELSE
    LET indent == Indent(ls[k])
        parent_id == IF indent > 0 /\ (indent - 1) \in DOMAIN last
                     THEN <<last[indent - 1]>> ELSE <<>>
        step_id == Len(db.domain_reload_steps) + 1
        db2 == [db EXCEPT !.domain_reload_steps = Append(@,
                   [log_id |-> lid, line_number |-> start_line + (k - 1),
                    parent_id |-> parent_id, indent_level |-> indent])]
        last2 == [d \in {x \in DOMAIN last \cup {indent} : x <= indent} |->
                     IF d = indent THEN step_id ELSE last[d]]
    IN domain_reload_loop(ls, k + 1, last2, start_line, lid, db2)

parse_domain_reload(ls, start_line, lid, db) ==
    domain_reload_loop(ls, 1, <<>>, start_line, lid, db)

parse_script_compilation(l, line_number, lid, db) ==
    Ret([db EXCEPT !.script_compilation = Append(@,
            [log_id |-> lid, line_number |-> line_number])], None)

\* _parse_telemetry without its except clause
parse_telemetry_unguarded(l, line_number, lid, db) ==
    IF l.ok
    THEN Ret([db EXCEPT !.telemetry_data = Append(@,
                 [log_id |-> lid, line_number |-> line_number])], None)
    ELSE Raise(db)

\* _parse_telemetry: a payload json.loads rejects is reported and skipped
parse_telemetry(l, line_number, lid, db) ==
    IF l.ok
    THEN Ret([db EXCEPT !.telemetry_data = Append(@,
                 [log_id |-> lid, line_number |-> line_number])], None)
    ELSE Ret(db, None)

\* _parse_operation and _parse_tundra_operation: float(duration), then insert.
\* The operation type is the text in front of the colon, stripped: the search
\* starts at the head of the line, so a worker prefix is part of it; the
\* build-system grammar has a fixed type and no memory figure.
parse_operation(l, line_number, lid, db) ==
    IF ~FloatOk(l.secs) THEN Raise(db)
    ELSE Ret([db EXCEPT !.operations = Append(@,
                 [log_id |-> lid, line_number |-> line_number,
                  operation_type |->
                      IF l.kind = "tundra" THEN [prefix |-> <<>>, text |-> "Tundra"]
                      ELSE [prefix |-> l.w, text |-> l.typ],
                  operation_name |-> l.name, duration_ms |-> Ms(l.secs),
                  memory_mb |-> IF l.kind = "tundra" THEN Null ELSE l.mem])],
             None)

----------------------------------------------------------------------------
(* The pass: the body of the loop over the lines. s holds the local state  *)
(* of parse_log_file and the store: [ws, pend, dr, drl, drs, db].          *)

Next1(s) == [s |-> s, continue |-> TRUE, raised |-> FALSE]
Fall(s) == [s |-> s, continue |-> FALSE, raised |-> FALSE]
Abort(s) == [s |-> s, continue |-> TRUE, raised |-> TRUE]

Remove(f, k) == [x \in DOMAIN f \ {k} |-> f[x]]

\* the importer looked up from the extension, whatever the worker stored
CompletionImporterByExtension(state) == importer_map(Suffix(state.asset_path))

\* the importer a worker's completion uses: the stored one, else by extension
CompletionImporter(state) ==
    LET stored == IF state.importer_type = "-1" \/ state.importer_type = ""
                  THEN None ELSE state.importer_type
    IN IF stored = None THEN importer_map(Suffix(state.asset_path)) ELSE stored

\* the skip rules of a worker's completion
WorkerSkip(path) ==
    \/ StartsWithCom(path) /\ SlashCount(path) <= 2
    \/ ~HasDot(path)

\* the completion with the entry of a skipped import left in the table
worker_complete_keeping_skipped(s, l, lid) ==
    IF ~FloatOk(l.secs) THEN Abort(s)
    ELSE
    LET w == WorkerNum(l)
        state == s.ws[w]
        importer_type == CompletionImporter(state)
        cleared == [s EXCEPT !.ws = Remove(@, w)]
    IN IF WorkerSkip(state.asset_path) THEN Next1(s)
       ELSE Next1([cleared EXCEPT !.db =
                InsertImport(@, lid, state.line_number, state.asset_path,
                             state.guid, l.art, importer_type, Ms(l.secs),
                             categorize_asset(state.asset_path, None))])

\* a worker's completion line: float(), the importer, the skip rules, the
\* insert, and the entry cleared whether skipped or not
worker_complete(s, l, lid) ==
    IF ~FloatOk(l.secs) THEN Abort(s)
    ELSE
    LET w == WorkerNum(l)
        state == s.ws[w]
        importer_type == CompletionImporter(state)
        cleared == [s EXCEPT !.ws = Remove(@, w)]
    IN IF WorkerSkip(state.asset_path) THEN Next1(cleared)
       ELSE Next1([cleared EXCEPT !.db =
                InsertImport(@, lid, state.line_number, state.asset_path,
                             state.guid, l.art, importer_type, Ms(l.secs),
                             categorize_asset(state.asset_path, None))])

\* the branch taken by a line with a [WorkerN] prefix
worker_branch(s, ln, l, lid) ==
    LET w == WorkerNum(l) IN
    IF ContainsStart(l) /\ EndsWithGuid(l)
    THEN Next1([s EXCEPT !.ws = (w :> [asset_path |-> EndPath(l),
                                       guid |-> EndGuid(l), line_number |-> ln,
                                       importer_type |-> None]) @@ @])
    ELSE IF w \in DOMAIN s.ws /\ s.ws[w].importer_type = None
            /\ ImporterLineMatch(l)
    THEN Next1([s EXCEPT !.ws[w].importer_type =
                   IF l.imp = "-1" \/ ~EndsWithImporter(l.imp) THEN None
                   ELSE l.imp])
    ELSE IF ContainsArtifact(l) /\ ArtifactMatch(l) /\ w \in DOMAIN s.ws
    THEN worker_complete(s, l, lid)
    ELSE Fall(s)

\* pending_imports[guid] = ...: a key the dict holds keeps its place
PendingPut(pend, e) ==
    IF \E k \in 1..Len(pend) : pend[k].guid = e.guid
    THEN [k \in 1..Len(pend) |-> IF pend[k].guid = e.guid THEN e ELSE pend[k]]
    ELSE Append(pend, e)

\* the first key of the dict
PendingPickOldest(pend) == 1

\* list(pending_imports.keys())[-1]
PendingPick(pend) == Len(pend)

\* a completion line without a worker prefix, while imports are pending
pending_complete(s, l, lid) ==
    IF ~FloatOk(l.secs) THEN Abort(s)
    ELSE
    LET k == PendingPick(s.pend)
        state == s.pend[k]
        rest == [s EXCEPT !.pend = SubSeq(@, 1, k - 1) \o SubSeq(@, k + 1, Len(@))]
    IN Next1([rest EXCEPT !.db =
                InsertImport(@, lid, state.line_number, state.asset_path,
                             state.guid, l.art, state.importer_type, Ms(l.secs),
                             categorize_asset(state.asset_path,
                                              state.importer_type))])

\* a 'Start importing' line without a worker prefix
start_importing(s, ln, l, lid) ==
    LET r == parse_asset_import(l, ln, lid, s.db)
        s2 == [s EXCEPT !.db = r.db]
    IN IF r.raised THEN Abort(s)
       ELSE IF r.ret = None /\ PendingStartMatch(l)
       THEN Next1([s2 EXCEPT !.pend = PendingPut(@,
                      [guid |-> l.guid, asset_path |-> l.path,
                       line_number |-> ln, importer_type |-> l.imp])])
       ELSE Next1(s2)

Lift(s, r) == IF r.raised THEN Abort(s) ELSE Next1([s EXCEPT !.db = r.db])

\* [line] + lines[i:min(i+10, len(lines))]
context_lines(ls, ln) ==
    <<ls[ln]>> \o SubSeq(ls, ln + 1, IF ln + 10 < Len(ls) THEN ln + 10 ELSE Len(ls))

\* 'Operation' in line and 'took' in line and 'sec' in line: of the texts of
\* the catalogues, two hold the word 'Operation'
OperationGate(l) ==
    /\ l.kind = "op"
    /\ {l.typ, l.name} \cap {"Sprite Atlas Operation", "Pack Operation"} # {}

\* the chain as it would be if the line that ends a domain-reload section
\* were handed on to the branches behind it
dispatch_chain_redispatching(s, ln, ls, lid) ==
    LET l == ls[ln]
        ended == [s EXCEPT !.db = parse_domain_reload(s.drl, s.drs, lid, @),
                           !.dr = FALSE, !.drl = <<>>]
        s1 == IF s.dr /\ ~StepLineMatch(l) THEN ended ELSE s
    IN
    IF ContainsStart(l) /\ ~HasWorker(l) THEN start_importing(s, ln, l, lid)
    ELSE IF l.kind = "refresh"
    THEN Lift(s, parse_pipeline_refresh(context_lines(ls, ln), ln, lid, s.db))
    ELSE IF l.kind = "text"
            /\ l.has \cap {"Start importing", "Asset Pipeline Refresh"} # {}
    THEN Next1(s)
    ELSE IF l.kind = "drhdr"
    THEN Next1([s EXCEPT !.dr = TRUE, !.drs = ln, !.drl = <<l>>])
    ELSE IF s.dr /\ StepLineMatch(l) THEN Next1([s EXCEPT !.drl = Append(@, l)])
    ELSE IF l.kind = "asm" THEN Lift(s1, parse_script_compilation(l, ln, lid, s1.db))
    ELSE IF l.kind = "utp" THEN Lift(s1, parse_telemetry(l, ln, lid, s1.db))
    ELSE IF OperationGate(l) \/ l.kind = "tundra"
    THEN Lift(s1, parse_operation(l, ln, lid, s1.db))
    ELSE Next1(s1)

\* the if/elif chain behind the import branches, for line ln of ls. A text
\* line that holds 'Start importing' or 'Asset Pipeline Refresh' takes that
\* arm of the chain, where no pattern matches it.
dispatch_chain(s, ln, ls, lid) ==
    LET l == ls[ln] IN
    IF ContainsStart(l) /\ ~HasWorker(l) THEN start_importing(s, ln, l, lid)
    ELSE IF l.kind = "refresh"
    THEN Lift(s, parse_pipeline_refresh(context_lines(ls, ln), ln, lid, s.db))
    ELSE IF l.kind = "text"
            /\ l.has \cap {"Start importing", "Asset Pipeline Refresh"} # {}
    THEN Next1(s)
    ELSE IF l.kind = "drhdr"
    THEN Next1([s EXCEPT !.dr = TRUE, !.drs = ln, !.drl = <<l>>])
    ELSE IF s.dr
    THEN IF StepLineMatch(l) THEN Next1([s EXCEPT !.drl = Append(@, l)])
         ELSE Next1([s EXCEPT !.db = parse_domain_reload(s.drl, s.drs, lid, @),
                              !.dr = FALSE, !.drl = <<>>])
    ELSE IF l.kind = "asm" THEN Lift(s, parse_script_compilation(l, ln, lid, s.db))
    ELSE IF l.kind = "utp" THEN Lift(s, parse_telemetry(l, ln, lid, s.db))
    ELSE IF OperationGate(l) \/ l.kind = "tundra"
    THEN Lift(s, parse_operation(l, ln, lid, s.db))
    ELSE Next1(s)

\* the guard without its test for a worker prefix
PendingCompletionGuardAnyLine(s, l) ==
    ContainsArtifact(l) /\ ArtifactMatch(l) /\ s.pend # <<>>

\* the guard of the completion of a pending import
PendingCompletionGuard(s, l) ==
    ContainsArtifact(l) /\ ~HasWorker(l) /\ ArtifactMatch(l) /\ s.pend # <<>>

\* one iteration of the loop over the lines, for line ln of ls
line_step(s, ln, ls, lid) ==
    LET l == ls[ln]
        wb == IF HasWorker(l) THEN worker_branch(s, ln, l, lid) ELSE Fall(s)
    IN IF wb.continue THEN wb
       ELSE IF PendingCompletionGuard(s, l) THEN pending_complete(s, l, lid)
       ELSE dispatch_chain(s, ln, ls, lid)

----------------------------------------------------------------------------
(* Inputs: the lines the model feeds the parser *)

NoW == <<>>
W(n) == <<n>>

StartLine(w, path, guid, imp, art, secs, guid2) ==
    [w |-> w, kind |-> "start", path |-> path, guid |-> guid, imp |-> imp,
     art |-> art, secs |-> secs, guid2 |-> guid2]
ImpLine(w, imp) == [w |-> w, kind |-> "imp", imp |-> imp]
DoneLine(w, art, secs) == [w |-> w, kind |-> "done", art |-> art, secs |-> secs]
RefreshLine(w, secs) == [w |-> w, kind |-> "refresh", secs |-> secs]
DrHdrLine(w, ms) == [w |-> w, kind |-> "drhdr", ms |-> ms]
StepLine(depth) == [w |-> NoW, kind |-> "step", depth |-> depth]
AsmLine(w) == [w |-> w, kind |-> "asm"]
UtpLine(w, ok) == [w |-> w, kind |-> "utp", ok |-> ok]
OperationLine(w, typ, name, secs, mem) ==
    [w |-> w, kind |-> "op", typ |-> typ, name |-> name, secs |-> secs,
     mem |-> mem]
OpLine(w, secs) ==
    OperationLine(w, "Sprite Atlas Operation", "Generating Atlas Masks", secs, Null)
TundraLine(w, secs) ==
    [w |-> w, kind |-> "tundra", secs |-> secs,
     name |-> "build success (1 items updated, 2 evaluated)"]
PlainLine(w) == [w |-> w, kind |-> "plain"]
\* a line of no grammar, by what _classify_line finds in it: its leading
\* tabs and its features ("[" is a leading '[', so it goes without tabs)
TextLine(tabs, has) == [w |-> NoW, kind |-> "text", tabs |-> tabs, has |-> has]
\* lines of the header: 'Unity Editor version: V', 'macOS version: ...',
\* 'Architecture: A', '-projectpath D/N', 'Successfully changed project path
\* to: D/N'; val is what the extractor gives for the line (the empty name
\* for '-projectpath .', as Path('.').name is)
HeaderLine(kind, val) == [w |-> NoW, kind |-> kind, val |-> val]
\* a summary line of a pipeline refresh: the field it names, whether its
\* numbers match the field's pattern, and the numbers
SummaryLine(field, ok, nums) ==
    [w |-> NoW, kind |-> "summary", field |-> field, ok |-> ok, nums |-> nums]

\* a summary line on which only the figures numbered in present stand (a
\* scripting line without its compile time, an imports line without
\* 'actual='): the field's pattern asks for all figures, so it fails
PartialSummaryLine(field, present, nums) ==
    [w |-> NoW, kind |-> "summary", field |-> field, ok |-> FALSE,
     nums |-> nums, present |-> present]

PngPath == [dirs |-> 1, name |-> <<"a", "png">>, rest |-> <<>>,
     casing |-> "lower"]
AssetPath == [dirs |-> 1, name |-> <<"a", "asset">>, rest |-> <<>>,
     casing |-> "lower"]
PackagePath == [dirs |-> 1, name |-> <<"com", "unity", "foo">>, rest |-> <<>>,
     casing |-> "lower"]
BarePackagePath == [dirs |-> 0, name |-> <<"com", "unity", "foo">>, rest |-> <<>>,
     casing |-> "lower"]
FolderPath == [dirs |-> 1, name |-> <<"Folder">>, rest |-> <<>>,
     casing |-> "lower"]

Secs0500 == <<"0", ".", "5", "0", "0">>
Secs0001 == <<"0", ".", "0", "0", "1">>
SecsBad == <<"1", ".", "2", ".", "3">>

\* a bare 'Start importing P using Guid(G)' line
Bare(w, path, guid) == StartLine(w, path, guid, None, None, NoSecs, None)
\* 'Start importing P using Guid(G) (I)'
Untimed(w, path, guid, imp) == StartLine(w, path, guid, imp, None, NoSecs, None)
\* 'Start importing P using Guid(G) (I) -> (artifact id: 'A') in N seconds'
Full(w, path, guid, imp, art, secs) ==
    StartLine(w, path, guid, imp, art, secs, None)
\* 'Start importing P using Guid(G) (I) in N seconds'
Timed(w, path, guid, imp, secs) == StartLine(w, path, guid, imp, None, secs, None)

\* the worker sequence of a texture import, and another worker beside it
CatWorker ==
    {Bare(W(0), PngPath, "abc"), Bare(W(0), AssetPath, "abc"),
     ImpLine(W(0), "TextureImporter"), ImpLine(W(0), "-1"),
     DoneLine(W(0), "def", Secs0500), Bare(W(1), PngPath, "aaa"),
     DoneLine(W(1), "fed", Secs0001), PlainLine(W(0))}

\* package folders on every import route
CatPackage ==
    {Timed(NoW, PackagePath, "aaa", "DefaultImporter", Secs0001),
     Untimed(NoW, PackagePath, "aaa", "DefaultImporter"),
     Untimed(NoW, PackagePath, "aaa", "AudioImporter"),
     Bare(NoW, PackagePath, "aaa"), Bare(NoW, BarePackagePath, "aaa"),
     Bare(W(0), PackagePath, "aaa"),
     DoneLine(W(0), "def", Secs0500), DoneLine(NoW, "def", Secs0500)}

\* folders (no extension) on every import route
CatFolder ==
    {Timed(NoW, FolderPath, "aaa", "TextureImporter", Secs0500),
     Timed(NoW, FolderPath, "aaa", "DefaultImporter", Secs0500),
     Untimed(NoW, FolderPath, "aaa", "TextureImporter"),
     Untimed(NoW, FolderPath, "aaa", "DefaultImporter"),
     Bare(NoW, FolderPath, "aaa"), Bare(W(0), FolderPath, "aaa"),
     DoneLine(W(0), "def", Secs0500), DoneLine(NoW, "def", Secs0500)}

\* non-worker imports of files: single-line, pending, and a line that ends
\* in a second Guid clause
CatImport ==
    {Full(NoW, PngPath, "abc", "TextureImporter", "def", Secs0500),
     Untimed(NoW, PngPath, "abc", "AudioImporter"),
     Untimed(NoW, AssetPath, "aaa", "VideoClipImporter"),
     Untimed(NoW, AssetPath, "aaa", "TextureImporter"),
     StartLine(NoW, PngPath, "aa", "Foo", None, NoSecs, "bb"),
     Bare(NoW, PngPath, "abc"),
     DoneLine(NoW, "def", Secs0500), PlainLine(NoW)}

\* number tokens float() rejects, and a payload json.loads rejects
CatMalformed ==
    {Timed(NoW, PngPath, "abc", "TextureImporter", SecsBad),
     Bare(W(0), PngPath, "abc"), DoneLine(W(0), "def", SecsBad),
     Untimed(NoW, PngPath, "abc", "AudioImporter"), DoneLine(NoW, "def", SecsBad),
     RefreshLine(NoW, SecsBad), UtpLine(NoW, FALSE), OpLine(NoW, SecsBad)}

\* the other grammars, without a worker prefix
CatOther ==
    {RefreshLine(NoW, Secs0500), DrHdrLine(NoW, TRUE), DrHdrLine(NoW, FALSE),
     StepLine(1), StepLine(2), StepLine(0), AsmLine(NoW), UtpLine(NoW, TRUE),
     OpLine(NoW, Secs0500), TundraLine(NoW, Secs0001), PlainLine(NoW)}

\* the other grammars behind a worker prefix
CatWorkerOther ==
    {RefreshLine(W(0), Secs0500), DrHdrLine(W(0), TRUE), DrHdrLine(NoW, TRUE),
     StepLine(1), AsmLine(W(0)), UtpLine(W(0), TRUE), OpLine(W(0), Secs0500),
     TundraLine(W(0), Secs0001), PlainLine(W(0)),
     Full(W(0), PngPath, "abc", "TextureImporter", "def", Secs0500),
     Untimed(NoW, PngPath, "abc", "AudioImporter")}

\* lines of the generic operation grammar: with and without the memory
\* figure, with the word 'Operation' in the type, in the name only, or nowhere
CatOperation ==
    {OperationLine(NoW, "Sprite Atlas Operation", "Generating Atlas Masks", Secs0500, <<512>>),
     OperationLine(NoW, "Sprite Atlas Operation", "Generating Atlas Masks", Secs0001, Null),
     OperationLine(NoW, "Sprite Atlas Packing", "Generating Atlas Masks", Secs0500, Null),
     OperationLine(NoW, "Sprite Atlas Packing", "Pack Operation", Secs0500, <<512>>),
     DrHdrLine(NoW, TRUE), PlainLine(NoW)}

\* text lines for the classification: for every feature the line that holds
\* it and every feature of lower priority, tabbed lines that hold a word
\* among markers, and lines of nothing, beside a section header
CatText ==
    LET features == <<"error", "exception", "warning", "[", "Start importing",
                      "Asset Pipeline Refresh", "Domain Reload", "##utp:">>
    IN
    {TextLine(0, {features[m] : m \in k..Len(features)}) : k \in 1..Len(features)}
    \cup {TextLine(MaxTabs, {"exception"}), TextLine(1, {"warning", "##utp:"}),
          TextLine(1, {"Domain Reload", "##utp:"}), TextLine(MaxTabs, {}),
          DrHdrLine(NoW, TRUE)}

\* refresh headers and the summary lines behind them
CatRefresh ==
    {RefreshLine(NoW, Secs0500), RefreshLine(NoW, Secs0001),
     SummaryLine("imports", TRUE, <<5, 4>>), SummaryLine("imports", FALSE, <<>>),
     SummaryLine("process", TRUE, <<1, 2>>), SummaryLine("callback", TRUE, <<3, 4>>),
     SummaryLine("scripting", TRUE, <<1, 2, 3, 4>>), PlainLine(NoW),
     PartialSummaryLine("scripting", {1, 2}, <<1, 2, 0, 0>>),
     PartialSummaryLine("imports", {1}, <<5, 0>>)}

\* telemetry lines whose payload json.loads rejects or accepts, among lines
\* that open and close imports and domain-reload sections
CatTelemetry ==
    {UtpLine(NoW, FALSE), UtpLine(W(0), FALSE), UtpLine(NoW, TRUE),
     DrHdrLine(NoW, TRUE), StepLine(1), Bare(W(0), PngPath, "abc"),
     DoneLine(W(0), "def", Secs0500),
     Untimed(NoW, PngPath, "abc", "AudioImporter"),
     DoneLine(NoW, "def", Secs0500)}

Catalogues ==
    {CatWorker, CatPackage, CatFolder, CatImport, CatMalformed, CatOther,
     CatWorkerOther, CatRefresh, CatTelemetry, CatOperation, CatText}

SeqsUpTo(S, n) == UNION {[1..k -> S] : k \in 0..n}

Inputs == UNION {SeqsUpTo(cat, MaxLines) : cat \in Catalogues}

----------------------------------------------------------------------------
(* parse_log_file *)

Locals == [ws |-> <<>>, pend |-> <<>>, dr |-> FALSE, drl |-> <<>>, drs |-> 0]

\* The code scans lines[:100] for the header metadata. The model scans the
\* first HeaderScanLines lines, so that an input can be longer than the scan.
HeaderScanLines == 2

\* how many lines an input of the header scan has behind the scanned ones
MaxBehindHeader == 1

\* the scan over every line of the input
HeaderWindowAll(ls) == ls

\* lines[:100]
HeaderWindow(ls) ==
    SubSeq(ls, 1, IF Len(ls) < HeaderScanLines THEN Len(ls) ELSE HeaderScanLines)

\* 'not value' on None and on a string
Falsy(v) == v = None \/ v = ""

extract_unity_version(l) == IF l.kind = "version" THEN l.val ELSE None

extract_platform(l) == IF l.kind = "platform" THEN l.val ELSE None

extract_architecture(l) == IF l.kind = "arch" THEN l.val ELSE None

\* the project name a line gives: Path(project_path).name behind
\* '-projectpath' or 'Successfully changed project path to:'
extract_project_name(l) ==
    IF l.kind \in {"projectpath", "changedpath"} THEN l.val ELSE None

\* the extractor of a field of the header, on a line
extract(field, l) ==
    CASE field = "unity_version" -> extract_unity_version(l)
      [] field = "platform" -> extract_platform(l)
      [] field = "architecture" -> extract_architecture(l)
      [] field = "project_name" -> extract_project_name(l)

\* a field of the header as it would be if every matching line set it
RECURSIVE last_match(_, _, _, _)
last_match(field, w, k, value) ==
    IF k > Len(w) THEN value
    ELSE last_match(field, w, k + 1,
                    IF extract(field, w[k]) # None
                    THEN extract(field, w[k]) ELSE value)

\* a field of the header: each line is asked while the field is not set
RECURSIVE first_match(_, _, _, _)
first_match(field, w, k, value) ==
    IF k > Len(w) THEN value
    ELSE first_match(field, w, k + 1,
                     IF Falsy(value) /\ extract(field, w[k]) # None
                     THEN extract(field, w[k]) ELSE value)

\* the project name taken from the place of the log: the log is named like
\* an editor log and a project's directories lie beside it
project_name_fallback(src, found) ==
    IF Falsy(found) /\ src.editor_log /\ src.project_dir THEN src.parent
    ELSE found

\* the header metadata of the log at src with lines ls
header_metadata(src, ls) ==
    LET w == HeaderWindow(ls) IN
    [unity_version |-> first_match("unity_version", w, 1, None),
     platform |-> first_match("platform", w, 1, None),
     architecture |-> first_match("architecture", w, 1, None),
     project_name |->
        project_name_fallback(src, first_match("project_name", w, 1, None))]

\* INSERT INTO log_metadata: the session row; its parse time is set at the end
InsertSession(db, src, ls) ==
    [db EXCEPT !.log_metadata = Append(@,
        [log_file |-> src, header |-> header_metadata(src, ls),
         total_lines |-> Len(ls), total_parse_time_ms |-> None])]

\* a log that lies beside no project
PlainLog == [editor_log |-> FALSE, project_dir |-> FALSE, parent |-> "tmp"]

\* Begin with the tables of the pass kept from the call before
BeginKeepingState(src, ls) ==
    /\ lines' = ls
    /\ store' = InsertSession(store, src, ls)
    /\ log_id' = Len(store.log_metadata) + 1
    /\ i' = 0
    /\ pc' = "pass"
    /\ UNCHANGED <<worker_states, pending_imports, in_domain_reload,
                   domain_reload_lines, domain_reload_start, durable>>
    /\ UNCHANGED <<file, last_position, calls, watch>>

\* open() and readlines() succeed: the session row is inserted and the local
\* state of the pass is set up
Begin(src, ls) ==
    /\ lines' = ls
    /\ store' = InsertSession(store, src, ls)
    /\ log_id' = Len(store.log_metadata) + 1
    /\ i' = 0
    /\ worker_states' = Locals.ws
    /\ pending_imports' = Locals.pend
    /\ in_domain_reload' = Locals.dr
    /\ domain_reload_lines' = Locals.drl
    /\ domain_reload_start' = Locals.drs
    /\ pc' = "pass"
    /\ UNCHANGED durable
    /\ UNCHANGED <<file, last_position, calls, watch>>

Open ==
    /\ pc = "idle"
    /\ \E ls \in Inputs : Begin(PlainLog, ls)

\* the session row written before the file is opened
OpenFailAfterInsert ==
    /\ pc \in {"idle", "done", "raised"}
    /\ pc' = "open_failed"
    /\ store' = InsertSession(store, PlainLog, <<>>)
    /\ UNCHANGED <<lines, i, log_id, worker_states, pending_imports,
                   in_domain_reload, domain_reload_lines, domain_reload_start,
                   durable>>
    /\ UNCHANGED <<file, last_position, calls, watch>>

\* open() raises: parse_log_file raises before it touches the store
OpenFail ==
    /\ pc \in {"idle", "done", "raised"}
    /\ pc' = "open_failed"
    /\ UNCHANGED <<lines, i, log_id, worker_states, pending_imports,
                   in_domain_reload, domain_reload_lines, domain_reload_start,
                   store, durable>>
    /\ UNCHANGED <<file, last_position, calls, watch>>

CurrentLocals ==
    [ws |-> worker_states, pend |-> pending_imports, dr |-> in_domain_reload,
     drl |-> domain_reload_lines, drs |-> domain_reload_start, db |-> store]

\* one iteration of the loop; an exception leaves parse_log_file. commit says
\* whether the iteration ends with a commit.
ParseLineWith(commit) ==
    /\ pc = "pass"
    /\ i < Len(lines)
    /\ LET r == line_step(CurrentLocals, i + 1, lines, log_id)
       IN /\ pc' = IF r.raised THEN "raised" ELSE "pass"
          /\ worker_states' = r.s.ws
          /\ pending_imports' = r.s.pend
          /\ in_domain_reload' = r.s.dr
          /\ domain_reload_lines' = r.s.drl
          /\ domain_reload_start' = r.s.drs
          /\ store' = r.s.db
    /\ i' = i + 1
    /\ durable' = IF commit THEN store' ELSE durable
    /\ UNCHANGED <<lines, log_id>>
    /\ UNCHANGED <<file, last_position, calls, watch>>

ParseLineCommitting == ParseLineWith(TRUE)

\* the loop body as the code has it: no commit inside the loop
ParseLine == ParseLineWith(FALSE)

\* the rows numbered from 0, as enumerate(lines) without a start would
store_log_lines_from0(db, ls, lid) ==
    [db EXCEPT !.log_lines = @ \o
        [k \in 1..Len(ls) |-> [log_id |-> lid, line_number |-> k - 1,
                               content |-> ls[k],
                               class |-> classify_line(ls[k])]]]

\* _store_log_lines: one row per line, numbered from 1
store_log_lines(db, ls, lid) ==
    [db EXCEPT !.log_lines = @ \o
        [k \in 1..Len(ls) |-> [log_id |-> lid, line_number |-> k,
                               content |-> ls[k],
                               class |-> classify_line(ls[k])]]]

\* _store_log_lines as it would be if it ran before the loop was over
StoreLogLinesEarly ==
    /\ pc = "pass"
    /\ store' = store_log_lines(store, lines, log_id)
    /\ durable' = store'
    /\ pc' = "stored"
    /\ UNCHANGED <<lines, i, log_id, worker_states, pending_imports,
                   in_domain_reload, domain_reload_lines, domain_reload_start>>
    /\ UNCHANGED <<file, last_position, calls, watch>>

\* the loop is over: _store_log_lines and its commit
StoreLogLines ==
    /\ pc = "pass"
    /\ i = Len(lines)
    /\ store' = store_log_lines(store, lines, log_id)
    /\ durable' = store'
    /\ pc' = "stored"
    /\ UNCHANGED <<lines, i, log_id, worker_states, pending_imports,
                   in_domain_reload, domain_reload_lines, domain_reload_start>>
    /\ UNCHANGED <<file, last_position, calls, watch>>

\* UPDATE log_metadata SET total_parse_time_ms, the commit, and the return
Finish ==
    /\ pc = "stored"
    /\ store' = [store EXCEPT !.log_metadata[log_id].total_parse_time_ms = "set"]
    /\ durable' = store'
    /\ pc' = "done"
    /\ UNCHANGED <<lines, i, log_id, worker_states, pending_imports,
                   in_domain_reload, domain_reload_lines, domain_reload_start>>
    /\ UNCHANGED <<file, last_position, calls, watch>>

\* the process dies: what was committed is what the store holds afterwards
Crash ==
    /\ pc \in {"pass", "stored"}
    /\ pc' = IF pc = "pass" THEN "crashed_in_pass" ELSE "crashed_after_store"
    /\ UNCHANGED <<lines, i, log_id, worker_states, pending_imports,
                   in_domain_reload, domain_reload_lines, domain_reload_start,
                   store, durable>>
    /\ UNCHANGED <<file, last_position, calls, watch>>

Init ==
    /\ pc = "idle"
    /\ lines = <<>>
    /\ i = 0
    /\ log_id = 0
    /\ worker_states = Locals.ws
    /\ pending_imports = Locals.pend
    /\ in_domain_reload = Locals.dr
    /\ domain_reload_lines = Locals.drl
    /\ domain_reload_start = Locals.drs
    /\ store = EmptyStore
    /\ durable = EmptyStore
    /\ file = [exists |-> FALSE, content |-> <<>>]
    /\ last_position = 0
    /\ calls = <<>>
    /\ watch = [created |-> FALSE, start |-> 0, truncated |-> FALSE]

Next == Open \/ OpenFail \/ ParseLine \/ StoreLogLines \/ Finish \/ Crash

\* one parse of any input, which may crash
Spec == Init /\ [][Next]_vars

----------------------------------------------------------------------------
(* Two parses with the same parser instance *)

\* imports and a domain-reload block that an input may leave open, the
\* lines that would complete them, and a line that makes the parse raise
CatReuse ==
    {Bare(W(0), PngPath, "abc"), DoneLine(W(0), "def", Secs0500),
     Untimed(NoW, PngPath, "abc", "AudioImporter"),
     DoneLine(NoW, "def", Secs0500), DrHdrLine(NoW, TRUE), StepLine(1),
     RefreshLine(NoW, SecsBad)}

InputsReuse == SeqsUpTo(CatReuse, MaxReuseLines)

OpenFirst ==
    /\ pc = "idle"
    /\ \E ls \in InputsReuse : Begin(PlainLog, ls)

\* parse_log_file called again on the instance that has parsed one input
OpenSecond ==
    /\ pc \in {"done", "raised"}
    /\ Len(store.log_metadata) = 1
    /\ \E ls \in InputsReuse : Begin(PlainLog, ls)

NextReuse ==
    OpenFirst \/ OpenSecond \/ OpenFail \/ ParseLine \/ StoreLogLines \/ Finish

SpecReuse == Init /\ [][NextReuse]_vars

----------------------------------------------------------------------------
(* One parse of a longer input: domain-reload sections, or a refresh       *)
(* header with its summary lines some lines behind it                      *)

MaxBlockLines == 6

\* a section header, steps of three depths, and a line that ends a section
CatBlock ==
    {DrHdrLine(NoW, TRUE), StepLine(0), StepLine(1), StepLine(2), PlainLine(NoW)}

\* the most lines of no grammar between a refresh header and a summary line
MaxGap == 10

\* a refresh header, lines of no grammar, and one summary line behind them
InputsWindow ==
    {<<RefreshLine(NoW, Secs0500)>> \o [k \in 1..gap |-> PlainLine(NoW)] \o <<f>> :
        gap \in 0..MaxGap,
        f \in {SummaryLine("imports", TRUE, <<5, 4>>),
               SummaryLine("process", TRUE, <<1, 2>>),
               SummaryLine("callback", TRUE, <<3, 4>>),
               SummaryLine("scripting", TRUE, <<1, 2, 3, 4>>)}}

InputsBlock == SeqsUpTo(CatBlock, MaxBlockLines) \cup InputsWindow

OpenBlock ==
    /\ pc = "idle"
    /\ \E ls \in InputsBlock : Begin(PlainLog, ls)

NextBlock == OpenBlock \/ ParseLine \/ StoreLogLines \/ Finish

SpecBlock == Init /\ [][NextBlock]_vars

----------------------------------------------------------------------------
(* One parse of a single import line, for every extension of the tables in *)
(* every casing                                                            *)

CasedPath(ext, c) ==
    [dirs |-> 1, name |-> <<"a", ext>>, rest |-> <<>>, casing |-> c]

\* the line names TextureImporter, another importer, or none
CasedLines(path) ==
    {Timed(NoW, path, "abc", "TextureImporter", Secs0500),
     Timed(NoW, path, "abc", "NativeFormatImporter", Secs0500),
     Bare(NoW, path, "abc")}

InputsCasing ==
    UNION {{<<l>> : l \in CasedLines(CasedPath(ext, c))} :
              ext \in ext_display_map, c \in CasePatterns}

OpenCasing ==
    /\ pc = "idle"
    /\ \E ls \in InputsCasing : Begin(PlainLog, ls)

NextCasing == OpenCasing \/ ParseLine \/ StoreLogLines \/ Finish

SpecCasing == Init /\ [][NextCasing]_vars

----------------------------------------------------------------------------
(* One parse of an input with header lines, from logs at several places *)

CatHeader ==
    {HeaderLine("version", "2022.3.1f1"), HeaderLine("version", "6000.0.1f1"),
     HeaderLine("platform", "macOS"), HeaderLine("arch", "arm64"),
     HeaderLine("projectpath", "Game"), HeaderLine("changedpath", "Other"),
     HeaderLine("projectpath", ""), PlainLine(NoW)}

InputsHeader == SeqsUpTo(CatHeader, HeaderScanLines + MaxBehindHeader)

\* logs named like an editor log or not, beside a project's directories or not
Sources ==
    {PlainLog,
     [editor_log |-> TRUE, project_dir |-> TRUE, parent |-> "Beside"],
     [editor_log |-> TRUE, project_dir |-> FALSE, parent |-> "Beside"]}

OpenHeader ==
    /\ pc = "idle"
    /\ \E src \in Sources, ls \in InputsHeader : Begin(src, ls)

NextHeader == OpenHeader \/ ParseLine \/ StoreLogLines \/ Finish

SpecHeader == Init /\ [][NextHeader]_vars

----------------------------------------------------------------------------
(* One parse of a longer input in which the imports of two workers,        *)
(* pending imports and domain-reload blocks interleave                     *)

MaxInterleaveLines == 4

Mp4Path(n) == [dirs |-> 1, name |-> <<n, "mp4">>, rest |-> <<>>, casing |-> "lower"]

\* pending imports of the three importers whose timing comes later, two of
\* which may be stored again, and completions
CatPending ==
    {Untimed(NoW, Mp4Path("a"), "aaa", "VideoClipImporter"),
     Untimed(NoW, Mp4Path("b"), "bbb", "VideoClipImporter"),
     Untimed(NoW, Mp4Path("c"), "ccc", "AudioImporter"),
     Untimed(NoW, Mp4Path("d"), "ddd", "MovieImporter"),
     DoneLine(NoW, "def", Secs0500), DoneLine(NoW, "fed", Secs0001)}

\* two workers, one of which may start a second import, a pending import,
\* and the completion lines of all three
CatInterleave ==
    {Bare(W(0), PngPath, "abc"), Bare(W(0), AssetPath, "bbb"),
     Bare(W(1), PngPath, "aaa"), DoneLine(W(0), "def", Secs0500),
     DoneLine(W(1), "fed", Secs0001),
     Untimed(NoW, Mp4Path("a"), "ccc", "VideoClipImporter"),
     DoneLine(NoW, "eee", Secs0500)}

\* a domain-reload block among a worker's start line, a pending import, a
\* refresh header and a line of no grammar
CatReloadInterleave ==
    {DrHdrLine(NoW, TRUE), StepLine(1), Bare(W(0), PngPath, "abc"),
     Untimed(NoW, Mp4Path("a"), "ccc", "VideoClipImporter"),
     RefreshLine(NoW, Secs0500), PlainLine(NoW)}

\* a worker's import of a file whose extension names an importer or none,
\* and '(T)' lines with a valid token, another valid token, the sentinel -1
\* and a token that does not end in Importer
CatImporterTokens ==
    {Bare(W(0), AssetPath, "abc"), Bare(W(0), Mp4Path("a"), "aaa"),
     ImpLine(W(0), "TextureImporter"), ImpLine(W(0), "AudioImporter"),
     ImpLine(W(0), "-1"), ImpLine(W(0), "Foo"),
     DoneLine(W(0), "def", Secs0500)}

InputsInterleave ==
    SeqsUpTo(CatPending, MaxInterleaveLines)
        \cup SeqsUpTo(CatInterleave, MaxInterleaveLines)
        \cup SeqsUpTo(CatReloadInterleave, MaxInterleaveLines)
        \cup SeqsUpTo(CatImporterTokens, MaxInterleaveLines)

OpenInterleave ==
    /\ pc = "idle"
    /\ \E ls \in InputsInterleave : Begin(PlainLog, ls)

NextInterleave == OpenInterleave \/ ParseLine \/ StoreLogLines \/ Finish

SpecInterleave == Init /\ [][NextInterleave]_vars

----------------------------------------------------------------------------
(* A whole parse as a function of its input, on a parser of its own *)

\* the iterations of the loop for the lines k .. n; stops at an exception
RECURSIVE pass_range(_, _, _, _, _)
pass_range(s, ls, k, n, lid) ==
    IF k > n THEN [s |-> s, raised |-> FALSE]
    ELSE LET r == line_step(s, k, ls, lid)
         IN IF r.raised THEN [s |-> r.s, raised |-> TRUE]
            ELSE pass_range(r.s, ls, k + 1, n, lid)

\* the loop from line k on
pass_from(s, ls, k, lid) == pass_range(s, ls, k, Len(ls), lid)

\* parse_log_file(ls) on a store db: the store afterwards, and whether it raised
parse_log_file(db, src, ls) ==
    LET lid == Len(db.log_metadata) + 1
        r == pass_from([ws |-> Locals.ws, pend |-> Locals.pend,
                        dr |-> Locals.dr, drl |-> Locals.drl,
                        drs |-> Locals.drs, db |-> InsertSession(db, src, ls)],
                       ls, 1, lid)
    IN IF r.raised THEN [db |-> r.s.db, raised |-> TRUE]
       ELSE [db |-> [store_log_lines(r.s.db, ls, lid) EXCEPT
                        !.log_metadata[lid].total_parse_time_ms = "set"],
             raised |-> FALSE]

----------------------------------------------------------------------------
(* The file watcher: FileWatcherService of file_watcher.py, beside a       *)
(* process that appends to the watched file and may truncate it. A text is *)
(* a sequence of characters, a line a text without newline.                *)

\* the longest content of the watched file
MaxFileLen == 4

\* the most calls of get_new_lines
MaxCalls == 3

\* new_content.split('\n'): the texts between the newlines, one more than
\* there are newlines
RECURSIVE split_lines(_)
split_lines(text) ==
    IF \A k \in 1..Len(text) : text[k] # "\n" THEN <<text>>
    ELSE LET n == CHOOSE k \in 1..Len(text) :
                     text[k] = "\n" /\ \A m \in 1..(k - 1) : text[m] # "\n"
         IN <<SubSeq(text, 1, n - 1)>>
                \o split_lines(SubSeq(text, n + 1, Len(text)))

\* get_new_lines on the file f with last_position pos: the lines, was_reset
\* and last_position afterwards. read_raises says whether opening or reading
\* the file raises, which the except clause turns into ([], False).
get_new_lines(f, pos, read_raises) ==
    IF ~f.exists THEN [lines |-> <<>>, was_reset |-> FALSE, position |-> pos]
    ELSE
    LET current_size == Len(f.content)
        was_reset == current_size < pos
        from == IF was_reset THEN 0 ELSE pos
        new_content == SubSeq(f.content, from + 1, current_size)
        parts == split_lines(new_content)
    IN IF current_size <= from
       THEN [lines |-> <<>>, was_reset |-> was_reset, position |-> from]
       ELSE IF read_raises
       THEN [lines |-> <<>>, was_reset |-> FALSE, position |-> from]
       ELSE [lines |-> IF new_content[Len(new_content)] # "\n"
                       THEN SubSeq(parts, 1, Len(parts) - 1) ELSE parts,
             was_reset |-> was_reset, position |-> current_size]

\* FileWatcherService.__init__ on a file that is missing, empty, or holds a
\* line
WatcherInit ==
    /\ ~watch.created
    /\ \E f \in {[exists |-> FALSE, content |-> <<>>],
                 [exists |-> TRUE, content |-> <<>>],
                 [exists |-> TRUE, content |-> <<"a", "\n">>]} :
          /\ file' = f
          /\ last_position' = IF f.exists THEN Len(f.content) ELSE 0
          /\ watch' = [created |-> TRUE, start |-> Len(f.content),
                       truncated |-> FALSE]
    /\ UNCHANGED calls
    /\ UNCHANGED <<pc, lines, i, log_id, worker_states, pending_imports,
                   in_domain_reload, domain_reload_lines, domain_reload_start,
                   store, durable>>

\* the writer appends a piece of text: a line, a part of a line, or the end
\* of a line; appending creates a missing file
AppendText ==
    /\ watch.created
    /\ \E piece \in {<<"a">>, <<"b", "\n">>, <<"\n">>} :
          /\ Len(file.content) + Len(piece) <= MaxFileLen
          /\ file' = [exists |-> TRUE, content |-> file.content \o piece]
    /\ UNCHANGED <<last_position, calls, watch>>
    /\ UNCHANGED <<pc, lines, i, log_id, worker_states, pending_imports,
                   in_domain_reload, domain_reload_lines, domain_reload_start,
                   store, durable>>

\* the file is truncated or recreated with less content than it had
Truncate ==
    /\ watch.created /\ file.exists
    /\ \E c \in {<<>>, <<"b", "\n">>} :
          /\ Len(c) < Len(file.content)
          /\ file' = [file EXCEPT !.content = c]
    /\ watch' = [watch EXCEPT !.truncated = TRUE]
    /\ UNCHANGED <<last_position, calls>>
    /\ UNCHANGED <<pc, lines, i, log_id, worker_states, pending_imports,
                   in_domain_reload, domain_reload_lines, domain_reload_start,
                   store, durable>>

\* one call of get_new_lines, under the lock
GetNewLines ==
    /\ watch.created
    /\ Len(calls) < MaxCalls
    /\ \E read_raises \in BOOLEAN :
          LET r == get_new_lines(file, last_position, read_raises)
          IN /\ last_position' = r.position
             /\ calls' = Append(calls, [lines |-> r.lines,
                                        was_reset |-> r.was_reset])
    /\ UNCHANGED <<file, watch>>
    /\ UNCHANGED <<pc, lines, i, log_id, worker_states, pending_imports,
                   in_domain_reload, domain_reload_lines, domain_reload_start,
                   store, durable>>

NextWatch == WatcherInit \/ AppendText \/ Truncate \/ GetNewLines

\* a watcher, a writer and a poller on one file
SpecWatch == Init /\ [][NextWatch]_vars

----------------------------------------------------------------------------
(* Properties *)

Range(q) == {q[k] : k \in 1..Len(q)}

\* the rows of table t that belong to session lid, in insertion order
RECURSIVE SelectSeq2(_, _)
SelectSeq2(q, lid) ==
    IF q = <<>> THEN <<>>
    ELSE (IF Head(q).log_id = lid THEN <<Head(q)>> ELSE <<>>)
         \o SelectSeq2(Tail(q), lid)

Started == pc \notin {"idle", "open_failed"}

\* the first three lines are '[W] Start importing P using Guid(G)',
\* '[W] (TextureImporter)', '[W] -> (artifact id: 'A') in 0.500 seconds'
WorkerTextureTriple(ls) ==
    /\ Len(ls) >= 3
    /\ HasWorker(ls[1]) /\ ls[1].kind = "start" /\ ls[1].imp = None
    /\ ls[1].secs = NoSecs /\ ls[1].guid2 = None
    /\ ls[2] = ImpLine(ls[1].w, "TextureImporter")
    /\ ls[3].kind = "done" /\ ls[3].w = ls[1].w /\ ls[3].secs = Secs0500

\* C1: once the pass has handled the three lines of a worker's texture import
\* (start, '(TextureImporter)', completion in 0.500 seconds), exactly one
\* AssetImportEvent exists for the start line, with the start line's path and
\* guid, the completion's artifact id, importer TextureImporter, 500 ms and
\* category Textures.
C1_WorkerTextureImport ==
    (Started /\ i >= 3 /\ pc # "raised" /\ WorkerTextureTriple(lines)) =>
        LET evs == SelectSeq(store.asset_imports,
                             LAMBDA e : e.log_id = log_id /\ e.line_number = 1)
        IN /\ Len(evs) = 1
           /\ evs[1].asset_path = lines[1].path
           /\ evs[1].guid = lines[1].guid
           /\ evs[1].artifact_id = lines[3].art
           /\ evs[1].importer_type = "TextureImporter"
           /\ evs[1].import_time_ms = 500
           /\ evs[1].asset_category = "Textures"

\* a package folder: the last segment starts with 'com.', at most two '/'
IsPackageFolder(path) == StartsWithCom(path) /\ SlashCount(path) <= 2

\* C2: no AssetImportEvent is ever emitted for a path whose last segment
\* starts with 'com.' and that has at most two separators.
C2_NoPackageFolderEvent ==
    \A e \in Range(store.asset_imports) : ~IsPackageFolder(e.asset_path)

\* C3: no AssetImportEvent is ever emitted for a path whose final segment has
\* no extension, on any route and for any importer.
C3_NoExtensionlessEvent ==
    \A e \in Range(store.asset_imports) : HasDot(e.asset_path)

\* C4: within one session no two AssetImportEvents share a line number.
C4_OneEventPerStartLine ==
    \A j, k \in 1..Len(store.asset_imports) :
        (/\ store.asset_imports[j].log_id = store.asset_imports[k].log_id
         /\ store.asset_imports[j].line_number
                = store.asset_imports[k].line_number) => j = k

\* C5: after a completed parse of N lines the session has exactly N
\* ClassifiedLine records, numbered 1..N each exactly once, and the session's
\* total line count is N.
C5_OneClassifiedLinePerLine ==
    pc = "done" =>
        LET rows == SelectSeq2(store.log_lines, log_id)
        IN /\ Len(rows) = Len(lines)
           /\ \A n \in 1..Len(lines) :
                 Cardinality({k \in 1..Len(rows) : rows[k].line_number = n}) = 1
           /\ \A k \in 1..Len(rows) : rows[k].content = lines[rows[k].line_number]
           /\ store.log_metadata[log_id].total_lines = Len(lines)
           /\ durable = store

\* a completed parse of three lines: a worker's import reconciled over two
\* of them, which emitted an event, and a line that matches no grammar
C5_Witness ==
    /\ pc = "done"
    /\ Len(lines) = 3
    /\ \E k \in 1..3 : lines[k].kind = "plain"
    /\ \E k \in 1..3 : lines[k].kind = "done" /\ HasWorker(lines[k])
    /\ store.asset_imports # <<>>

\* C6: a readable input never makes parse raise.
C6_NeverRaises == pc # "raised"

\* C7 as claimed: after a crash behind the first k lines of the pass (k less
\* than the input's length) the store holds the session metadata and every
\* event emitted for those lines.
C7_IncrementalDurability ==
    (pc = "crashed_in_pass" /\ i < Len(lines)) =>
        /\ Len(durable.log_metadata) >= log_id
        /\ durable.asset_imports = store.asset_imports
        /\ durable.pipeline_refreshes = store.pipeline_refreshes
        /\ durable.domain_reload_steps = store.domain_reload_steps
        /\ durable.script_compilation = store.script_compilation
        /\ durable.telemetry_data = store.telemetry_data
        /\ durable.operations = store.operations

\* C7, amended: records become durable at the commit that ends
\* _store_log_lines. After a crash during the pass the store holds no record
\* of the run, neither its session metadata nor any event; after a crash
\* behind that commit it holds the session metadata, every event and every
\* ClassifiedLine of the run.
C7_DurableAtCommit ==
    /\ pc = "crashed_in_pass" => durable = EmptyStore
    /\ pc = "crashed_after_store" =>
          /\ durable = store
          /\ Len(durable.log_metadata) = log_id
          /\ Len(SelectSeq2(durable.log_lines, log_id)) = Len(lines)

\* a crash during the pass, behind a line that emitted an event
C7_Witness ==
    /\ pc = "crashed_in_pass"
    /\ i >= 1 /\ i < Len(lines)
    /\ store.asset_imports # <<>>

\* C8: when the source cannot be opened the store is left as it was: no
\* record of any kind is created for that call.
C8_OpenFailureLeavesStore ==
    [][pc' = "open_failed" => (store' = store /\ durable' = durable)]_vars

\* a call that fails to open its source, on an instance whose store holds
\* the records of an earlier parse
C8_Witness ==
    /\ pc = "open_failed"
    /\ Len(store.log_metadata) = 1
    /\ store.asset_imports # <<>>

\* the tables an event of the other grammars goes to
OtherTables(db) ==
    <<db.pipeline_refreshes, db.domain_reload_steps, db.script_compilation,
      db.telemetry_data, db.operations>>

\* C9: a line with a [WorkerN] prefix never emits a PipelineRefreshEvent,
\* DomainReloadStep, ScriptCompilationEvent, TelemetryEvent or OperationEvent,
\* never changes the non-worker pending table and never starts or ends
\* domain-reload mode.
C9_WorkerLinesExclusive ==
    [][(pc = "pass" /\ i' = i + 1 /\ HasWorker(lines[i + 1])) =>
          /\ OtherTables(store') = OtherTables(store)
          /\ pending_imports' = pending_imports
          /\ in_domain_reload' = in_domain_reload]_vars

\* the records of session lid, as they read on a store where the session is
\* the only one: a step's parent is counted from the session's first step
SessionRecords(db, lid) ==
    LET before == Cardinality({k \in 1..Len(db.domain_reload_steps) :
                                  db.domain_reload_steps[k].log_id < lid})
        strip(q) == [k \in 1..Len(q) |-> [q[k] EXCEPT !.log_id = 0]]
        steps == SelectSeq2(db.domain_reload_steps, lid)
    IN [asset_imports |-> strip(SelectSeq2(db.asset_imports, lid)),
        pipeline_refreshes |-> strip(SelectSeq2(db.pipeline_refreshes, lid)),
        domain_reload_steps |->
            [k \in 1..Len(steps) |->
                [steps[k] EXCEPT !.log_id = 0,
                    !.parent_id = IF @ = <<>> THEN <<>> ELSE <<@[1] - before>>]],
        script_compilation |-> strip(SelectSeq2(db.script_compilation, lid)),
        telemetry_data |-> strip(SelectSeq2(db.telemetry_data, lid)),
        operations |-> strip(SelectSeq2(db.operations, lid)),
        log_lines |-> strip(SelectSeq2(db.log_lines, lid))]

\* C10: the second parse of an instance emits for its input exactly the
\* records that a parse of the same input alone, on a fresh instance, emits:
\* nothing the first input left open is completed by a line of the second.
C10_StateScopedToOneParse ==
    (pc = "done" /\ log_id = 2) =>
        LET alone == parse_log_file(EmptyStore, PlainLog, lines)
        IN /\ ~alone.raised
           /\ SessionRecords(store, 2) = SessionRecords(alone.db, 1)

\* the first input ended with a worker's import started or with a pending
\* import, and the second input, parsed to its end, begins with the line
\* that would have completed it
C10_Witness ==
    /\ pc = "done" /\ log_id = 2
    /\ Len(lines) >= 1
    /\ LET first == SelectSeq2(store.log_lines, 1)
       IN /\ first # <<>>
          /\ LET last == first[Len(first)].content
             IN \/ last = Bare(W(0), PngPath, "abc")
                   /\ lines[1] = DoneLine(W(0), "def", Secs0500)
                \/ last = Untimed(NoW, PngPath, "abc", "AudioImporter")
                   /\ lines[1] = DoneLine(NoW, "def", Secs0500)
    /\ SelectSeq2(store.asset_imports, 2) = <<>>

\* a line that reads as a step of depth d: d tabs, a name and '(Nms)'; the
\* header with its '(Nms)' reads as a step without tabs
ReadsAsStep(l, d) ==
    \/ l.kind = "step" /\ l.depth = d
    \/ l.kind = "drhdr" /\ l.ms /\ d = 0

\* the lines a .. a+4 are a section of steps with tab counts 0,1,1,2,0: the
\* header itself is the first of them (a = 1), or the header is the line
\* before them (a = 2)
SectionAt(ls, a) ==
    /\ Len(ls) >= a + 4
    /\ ls[1].kind = "drhdr"
    /\ a = 1 \/ (a = 2 /\ ls[2].kind = "step")
    /\ ReadsAsStep(ls[a], 0) /\ ReadsAsStep(ls[a + 1], 1)
    /\ ReadsAsStep(ls[a + 2], 1) /\ ReadsAsStep(ls[a + 3], 2)
    /\ ReadsAsStep(ls[a + 4], 0)

\* the position in the table (the row id) of the step persisted for line n,
\* 0 when there is none
StepIdAt(db, n) ==
    IF \E k \in 1..Len(db.domain_reload_steps) :
           db.domain_reload_steps[k].line_number = n
    THEN CHOOSE k \in 1..Len(db.domain_reload_steps) :
           db.domain_reload_steps[k].line_number = n
    ELSE 0

\* C11: after a completed parse of an input whose domain-reload section is
\* five step lines with tab counts 0,1,1,2,0, five DomainReloadSteps are
\* persisted for them: node1 has no parent, node2 and node3 have parent node1,
\* node4 has parent node3, node5 has no parent.
C11_DomainReloadForest ==
    \A a \in {1, 2} :
        (pc = "done" /\ SectionAt(lines, a)) =>
            LET id(n) == StepIdAt(store, a + n - 1)
                parent(n) == store.domain_reload_steps[id(n)].parent_id
            IN /\ \A n \in 1..5 : id(n) # 0
               /\ parent(1) = <<>>
               /\ parent(2) = <<id(1)>>
               /\ parent(3) = <<id(1)>>
               /\ parent(4) = <<id(3)>>
               /\ parent(5) = <<>>

\* the line numbers behind line n that the scan of a refresh header covers
WindowBehind(ls, n) ==
    {k \in 1..Len(ls) : k > n /\ k <= n + ScanWindow}

\* the PipelineRefreshEvents of the running parse at line n
RefreshEventsAt(n) ==
    SelectSeq(store.pipeline_refreshes,
              LAMBDA e : e.log_id = log_id /\ e.line_number = n)

\* C12: once the pass has handled a line that matches the refresh header
\* pattern, exactly one PipelineRefreshEvent exists at that line's number,
\* with or without summary lines behind it; when no line of the scan window
\* carries a summary field, its eight breakdown fields are all null.
C12_OneRefreshEventPerHeader ==
    \A n \in 1..Len(lines) :
        (Started /\ i >= n /\ lines[n].kind = "refresh") =>
            /\ Len(RefreshEventsAt(n)) = 1
            /\ (\A k \in WindowBehind(lines, n) : lines[k].kind # "summary")
                  => RefreshEventsAt(n)[1].breakdown = NoBreakdown

\* the path with its extension written in lower case
InLowerCase(path) == [path EXCEPT !.casing = "lower"]

\* C13: the type label and the category of an event whose path has a table
\* extension in any casing are those _categorize_asset returns for the same
\* path with the extension in lower case; a path ending .PNG, .png or .Png
\* has category Textures.
C13_CaseInsensitiveCategory ==
    \A e \in Range(store.asset_imports) :
        LET lower == categorize_asset(InLowerCase(e.asset_path), e.importer_type)
        IN /\ e.asset_type = lower.type
           /\ e.asset_category = lower.category
           /\ e.asset_type \in ext_display_map
           /\ e.asset_path.name = <<"a", "png">> => e.asset_category = "Textures"

\* events for a.Png and for a.PNG whose importer is not TextureImporter
C13_Witness ==
    /\ pc = "done"
    /\ \E e \in Range(store.asset_imports) :
          /\ e.asset_path = CasedPath("png", lines[1].path.casing)
          /\ e.asset_path.casing \in {"title", "upper"}
          /\ e.importer_type = "NativeFormatImporter"
          /\ e.asset_category = "Textures"

\* the inputs that share the scanned first lines with ls: ls itself when it
\* is shorter than the scan, else its scanned lines with any lines behind
SharingHeader(ls) ==
    IF Len(ls) < HeaderScanLines THEN {ls}
    ELSE {SubSeq(ls, 1, HeaderScanLines) \o t :
             t \in SeqsUpTo(CatHeader, MaxBehindHeader)}

\* C14 as claimed: the (version, platform, architecture, project name) tuple
\* of the session equals the tuple extracted for any input that shares the
\* scanned first lines, whatever lies behind them and wherever the log lies.
C14_HeaderFromPrefixAlone ==
    (pc = "pass" /\ i = 0) =>
        \A ls2 \in SharingHeader(lines), src2 \in Sources :
            header_metadata(src2, ls2) = store.log_metadata[log_id].header

\* C14, amended: the tuple of the session equals the tuple extracted for any
\* input that shares the scanned first lines and comes from a log at the same
\* place (same file name, same directories beside it), whatever lies behind
\* the scanned lines; the pass and the end of the parse leave it as it is.
\* The inputs that share the scanned lines are compared with the parse of
\* those lines alone; every parse has the tuple extracted for its own input.
C14_HeaderFromPrefixAndPlace ==
    /\ (pc = "pass" /\ i = 0 /\ Len(lines) <= HeaderScanLines) =>
          \A ls2 \in SharingHeader(lines) :
              header_metadata(store.log_metadata[log_id].log_file, ls2)
                  = store.log_metadata[log_id].header
    /\ (Started /\ log_id >= 1) =>
          store.log_metadata[log_id].header
              = header_metadata(store.log_metadata[log_id].log_file, lines)

\* an input longer than the scan, whose line behind the scan names a version
\* and a project that the scanned lines do not name, in a log beside a
\* project: the session has the place's project name and no version
C14_Witness ==
    /\ pc = "done"
    /\ Len(lines) > HeaderScanLines
    /\ \E k \in HeaderScanLines + 1 .. Len(lines) : lines[k].kind = "projectpath"
    /\ \A k \in 1..HeaderScanLines : lines[k].kind \in {"platform", "plain"}
    /\ store.log_metadata[log_id].header.project_name = "Beside"
    /\ store.log_metadata[log_id].header.platform = "macOS"

\* the input with every telemetry payload well-formed
WellFormed(ls) ==
    [k \in 1..Len(ls) |->
        IF ls[k].kind = "utp" THEN [ls[k] EXCEPT !.ok = TRUE] ELSE ls[k]]

Malformed(l) == l.kind = "utp" /\ ~l.ok

\* the line numbers of the rows of the event tables
EventLineNumbers(db) ==
    {e.line_number : e \in Range(db.asset_imports) \cup Range(db.pipeline_refreshes)
        \cup Range(db.domain_reload_steps) \cup Range(db.script_compilation)
        \cup Range(db.telemetry_data) \cup Range(db.operations)}

\* C15: while the pass runs, no record of any kind exists at the line number
\* of a '##utp:' line with a malformed payload, the pass has raised only if
\* it would have raised with the payloads well-formed, and the worker table,
\* the pending table, the domain-reload state and every event table are what
\* the same lines with well-formed payloads give, but for the
\* TelemetryEvents of those lines.
C15_MalformedTelemetrySkipped ==
    (pc \in {"pass", "raised"}) =>
        LET wf == pass_range([ws |-> Locals.ws, pend |-> Locals.pend,
                              dr |-> Locals.dr, drl |-> Locals.drl,
                              drs |-> Locals.drs,
                              db |-> InsertSession(EmptyStore, PlainLog, lines)],
                             WellFormed(lines), 1, i, log_id)
        IN /\ \A n \in 1..i : Malformed(lines[n]) => n \notin EventLineNumbers(store)
           /\ (pc = "raised") = wf.raised
           /\ worker_states = wf.s.ws
           /\ pending_imports = wf.s.pend
           /\ in_domain_reload = wf.s.dr
           /\ domain_reload_start = wf.s.drs
           /\ domain_reload_lines = wf.s.drl
           /\ store.asset_imports = wf.s.db.asset_imports
           /\ store.pipeline_refreshes = wf.s.db.pipeline_refreshes
           /\ store.domain_reload_steps = wf.s.db.domain_reload_steps
           /\ store.script_compilation = wf.s.db.script_compilation
           /\ store.operations = wf.s.db.operations
           /\ store.telemetry_data =
                 SelectSeq(wf.s.db.telemetry_data,
                           LAMBDA e : ~Malformed(lines[e.line_number]))

\* a pending import, a '##utp:' line with a malformed payload, and the
\* completion line behind it, which resolved the import
C15_Witness ==
    /\ pc = "pass" /\ i = 3
    /\ lines[1] = Untimed(NoW, PngPath, "abc", "AudioImporter")
    /\ Malformed(lines[2])
    /\ lines[3] = DoneLine(NoW, "def", Secs0500)
    /\ Len(store.asset_imports) = 1
    /\ store.telemetry_data = <<>>

\* the pass handles line i + 1, a completion line ('-> (artifact id: 'A') in
\* N seconds') with a [WorkerN] prefix
WorkerCompletionStep ==
    /\ pc = "pass" /\ i' = i + 1
    /\ HasWorker(lines[i + 1])
    /\ ContainsArtifact(lines[i + 1]) /\ ArtifactMatch(lines[i + 1])

\* C16: a worker-prefixed completion line for a worker that has no Started
\* import emits no AssetImportEvent, leaves the worker table as it is (no
\* entry created, no other worker's entry changed), leaves the pending table
\* as it is, and the pass goes on.
C16_StrayWorkerCompletionIgnored ==
    [][(WorkerCompletionStep /\ WorkerNum(lines[i + 1]) \notin DOMAIN worker_states) =>
          /\ store'.asset_imports = store.asset_imports
          /\ worker_states' = worker_states
          /\ pending_imports' = pending_imports
          /\ pc' = "pass"]_vars

\* the pass has handled a completion line of worker 0, which had started no
\* import, while a non-worker import was pending or worker 1 had started one
C16_Witness ==
    /\ pc = "pass" /\ i = 2
    /\ lines[2] = DoneLine(W(0), "def", Secs0500)
    /\ \/ lines[1] = Untimed(NoW, PackagePath, "aaa", "AudioImporter")
          /\ Len(pending_imports) = 1
       \/ lines[1] = Bare(W(1), PngPath, "aaa") /\ DOMAIN worker_states = {1}
    /\ store.asset_imports = <<>>

\* a line without a worker prefix that carries 'Start importing ... using
\* Guid(G) (I)' and 'in N seconds', with or without an artifact id
SingleLineImport(l) == ~HasWorker(l) /\ PrimaryMatch(l)

\* the AssetImportEvents of the running parse at line n
ImportEventsAt(n) ==
    SelectSeq(store.asset_imports,
              LAMBDA e : e.log_id = log_id /\ e.line_number = n)

\* C17: once the pass has handled a single-line import that no skip rule
\* discards, exactly one AssetImportEvent exists at that line's number, with
\* the line's own path, guid, artifact id and duration, whatever the pending
\* table held when the line arrived.
C17_SingleLineResolvedAsItself ==
    \A n \in 1..Len(lines) :
        (/\ Started /\ i >= n
         /\ SingleLineImport(lines[n]) /\ FloatOk(lines[n].secs)
         /\ ~PrimaryPackageSkip(lines[n].path)
         /\ ~PrimaryFolderSkip(lines[n].path, lines[n].imp)) =>
            /\ Len(ImportEventsAt(n)) = 1
            /\ ImportEventsAt(n)[1].asset_path = lines[n].path
            /\ ImportEventsAt(n)[1].guid = lines[n].guid
            /\ ImportEventsAt(n)[1].artifact_id = lines[n].art
            /\ ImportEventsAt(n)[1].import_time_ms = Ms(lines[n].secs)

\* C18: handling a single-line import leaves the worker table and the pending
\* table as they were, whether the import is emitted or skipped.
C18_SingleLineLeavesTables ==
    [][(pc = "pass" /\ i' = i + 1 /\ SingleLineImport(lines[i + 1])) =>
          /\ worker_states' = worker_states
          /\ pending_imports' = pending_imports]_vars

\* a line that carries '-> (artifact id: 'A') in N seconds'
CompletionLine(l) == ContainsArtifact(l) /\ ArtifactMatch(l)

\* the events the step has added to the store
NewImportEvents ==
    SubSeq(store'.asset_imports, Len(store.asset_imports) + 1,
           Len(store'.asset_imports))

\* the pass handles line i + 1, a completion line without a worker prefix,
\* while imports are pending
PendingCompletionStep ==
    /\ pc = "pass" /\ i' = i + 1
    /\ ~HasWorker(lines[i + 1]) /\ CompletionLine(lines[i + 1])
    /\ FloatOk(lines[i + 1].secs)
    /\ pending_imports # <<>>

\* the pending entry stored by the latest line
MostRecentPending ==
    CHOOSE e \in Range(pending_imports) :
        \A f \in Range(pending_imports) : f.line_number <= e.line_number

\* C19: a non-worker completion line that arrives while imports are pending
\* resolves the entry stored by the most recent pending 'Start importing'
\* line (also when that line stored a guid again that was still pending),
\* removes exactly that entry and leaves every other entry as it was.
C19_MostRecentPendingResolved ==
    [][PendingCompletionStep =>
          /\ Range(pending_imports') = Range(pending_imports) \ {MostRecentPending}
          /\ Len(pending_imports') = Len(pending_imports) - 1
          /\ \A e \in Range(NewImportEvents) :
                /\ e.line_number = MostRecentPending.line_number
                /\ e.guid = MostRecentPending.guid
                /\ e.asset_path = MostRecentPending.asset_path]_vars

\* line l is '[Workerw] Start importing P using Guid(G)'
WorkerStartLine(l, w) == l.w = <<w>> /\ ContainsStart(l) /\ EndsWithGuid(l)

\* the line on which worker w started the import it has not completed among
\* the lines 1 .. n: its latest start line, when no completion line of the
\* worker follows it; 0 when there is none
StartedLine(ls, n, w) ==
    LET starts == {k \in 1..n : WorkerStartLine(ls[k], w)}
        last == CHOOSE k \in starts : \A j \in starts : j <= k
    IN IF starts = {} THEN 0
       ELSE IF \E m \in (last + 1)..n : ls[m].w = <<w>> /\ CompletionLine(ls[m])
       THEN 0
       ELSE last

\* C20: in every interleaving, a completion line of worker w whose import
\* is not skipped emits one event for the import worker w started most
\* recently (that line's number, path and guid), clears that worker's entry
\* only, and leaves the pending table alone; a completion line without a
\* worker prefix leaves the worker table alone and emits no event for a
\* worker's line.
C20_WorkersAndPendingIndependent ==
    [][(pc = "pass" /\ i' = i + 1 /\ pc' = "pass" /\ CompletionLine(lines[i + 1])) =>
          LET l == lines[i + 1]
              from == IF HasWorker(l) THEN StartedLine(lines, i, l.w[1]) ELSE 0
          IN IF HasWorker(l)
             THEN /\ pending_imports' = pending_imports
                  /\ \A v \in DOMAIN worker_states \ {l.w[1]} :
                        v \in DOMAIN worker_states'
                        /\ worker_states'[v] = worker_states[v]
                  /\ DOMAIN worker_states' = DOMAIN worker_states \ {l.w[1]}
                  /\ IF from = 0 THEN NewImportEvents = <<>>
                     ELSE /\ Len(NewImportEvents) =
                                IF WorkerSkip(lines[from].path) THEN 0 ELSE 1
                          /\ \A e \in Range(NewImportEvents) :
                                /\ e.line_number = from
                                /\ e.asset_path = lines[from].path
                                /\ e.guid = lines[from].guid
                                /\ e.artifact_id = l.art
             ELSE /\ worker_states' = worker_states
                  /\ \A e \in Range(NewImportEvents) :
                        ~HasWorker(lines[e.line_number])]_vars

\* worker 0 and worker 1 have both started an import, a non-worker import is
\* pending, and worker 1's completion line has resolved worker 1's import
C20_Witness ==
    /\ pc = "pass" /\ i = 4
    /\ \E a, b, c \in 1..3 :
          /\ WorkerStartLine(lines[a], 0) /\ WorkerStartLine(lines[b], 1)
          /\ ~HasWorker(lines[c]) /\ ContainsStart(lines[c])
          /\ lines[4] = DoneLine(W(1), "fed", Secs0001)
          /\ Len(store.asset_imports) = 1
          /\ store.asset_imports[1].line_number = b
          /\ DOMAIN worker_states = {0}
          /\ Len(pending_imports) = 1

\* C21: every AssetImportEvent whose importer type is TextureImporter has
\* category Textures, whatever its extension and whichever route emitted it
\* (single-line, fallback, worker completion, pending completion).
C21_TextureImporterIsTextures ==
    \A e \in Range(store.asset_imports) :
        e.importer_type = "TextureImporter" => e.asset_category = "Textures"

\* line n is a step line of the block that the header at line h opens: every
\* line behind the header up to n is tabs, a name and '(Nms)'
InBlockOf(ls, h, n) ==
    /\ h < n /\ n <= Len(ls)
    /\ ls[h].kind = "drhdr"
    /\ \A k \in (h + 1)..n : StepLineMatch(ls[k])

\* the DomainReloadSteps of the running parse at line n
StepsAt(n) ==
    SelectSeq(store.domain_reload_steps,
              LAMBDA e : e.log_id = log_id /\ e.line_number = n)

\* C22: at the end of the run exactly one DomainReloadStep is persisted for
\* every step line that follows a 'Domain Reload Profiling:' header inside
\* its block, whatever ends the block (a line that is no step, another
\* header, the end of the input) and whether or not the header itself
\* carries '(Nms)'.
C22_EveryBlockStepPersisted ==
    pc = "done" =>
        \A h, n \in 1..Len(lines) :
            InBlockOf(lines, h, n) => Len(StepsAt(n)) = 1

\* the table of the record that a line of the script-compilation, telemetry,
\* generic-operation or build-system grammar emits
TableOf(db, l) ==
    CASE l.kind = "asm" -> db.script_compilation
      [] l.kind = "utp" -> db.telemetry_data
      [] l.kind \in {"op", "tundra"} -> db.operations

\* a well-formed line of one of these four grammars, without a worker prefix
EmitsOtherRecord(l) ==
    /\ ~HasWorker(l)
    /\ \/ l.kind = "asm"
       \/ l.kind = "utp" /\ l.ok
       \/ l.kind \in {"op", "tundra"} /\ FloatOk(l.secs)

\* C23: the first line that fails the step pattern while domain-reload mode
\* is active ends the mode, and when it is a script-compilation, telemetry,
\* generic-operation or build-system line, its record is emitted at its line
\* number.
C23_EndingLineRedispatched ==
    [][(/\ pc = "pass" /\ i' = i + 1 /\ in_domain_reload
        /\ ~StepPatternMatch(lines[i + 1])
        /\ EmitsOtherRecord(lines[i + 1])) =>
          /\ ~in_domain_reload'
          /\ \E e \in Range(TableOf(store', lines[i + 1])) :
                e.log_id = log_id /\ e.line_number = i + 1]_vars

\* C24: every persisted DomainReloadStep of depth d > 0 has a parent, which
\* is a step of depth d - 1 persisted before it from a line of the same
\* block; only steps of depth 0 have no parent. This holds for every sequence
\* of depths, a step more than one level deeper than the one before included.
C24_ParentOneLevelUp ==
    \A k \in 1..Len(store.domain_reload_steps) :
        LET e == store.domain_reload_steps[k] IN
        IF e.indent_level = 0 THEN e.parent_id = <<>>
        ELSE /\ e.parent_id # <<>>
             /\ e.parent_id[1] < k
             /\ LET p == store.domain_reload_steps[e.parent_id[1]]
                IN /\ p.indent_level = e.indent_level - 1
                   /\ p.log_id = e.log_id
                   /\ p.line_number < e.line_number
                   /\ \A n \in (p.line_number + 1)..e.line_number :
                         lines[n].kind = "step"

\* the steps the move has added to the store
NewSteps ==
    SubSeq(store'.domain_reload_steps, Len(store.domain_reload_steps) + 1,
           Len(store'.domain_reload_steps))

\* C25: each DomainReloadStep's line number is the position in the input of
\* the line it was parsed from (a step line of the step's depth, or the
\* header), also when worker-prefixed, import or pipeline-refresh lines lie
\* between the header and the step line; and while domain-reload mode is
\* active, the first line that fails the step pattern ends it, whatever kind
\* of line it is.
C25_StepLineNumbersAndModeEnd ==
    [][(pc = "pass" /\ i' = i + 1) =>
          /\ \A e \in Range(NewSteps) :
                ReadsAsStep(lines[e.line_number], e.indent_level)
          /\ (in_domain_reload /\ ~StepPatternMatch(lines[i + 1]))
                => ~in_domain_reload']_vars

\* C26: after the pass has handled a worker-prefixed completion line, that
\* worker has no entry in the worker table, whether the import it had started
\* was emitted (one event) or discarded by a skip rule (no event); a
\* completion line of a worker that has started no import since its last
\* completion emits no AssetImportEvent.
C26_WorkerClearedAtCompletion ==
    [][(WorkerCompletionStep /\ pc' = "pass") =>
          LET w == WorkerNum(lines[i + 1]) IN
          /\ w \notin DOMAIN worker_states'
          /\ w \in DOMAIN worker_states =>
                Len(NewImportEvents) =
                    IF WorkerSkip(worker_states[w].asset_path) THEN 0 ELSE 1
          /\ StartedLine(lines, i, w) = 0 => NewImportEvents = <<>>]_vars

\* worker 0 started the import of a package folder, its completion line
\* discarded the import, and a second completion line of worker 0 followed:
\* no event, no entry
C26_Witness ==
    /\ pc = "pass" /\ i = 3
    /\ lines[1] = Bare(W(0), PackagePath, "aaa")
    /\ lines[2] = DoneLine(W(0), "def", Secs0500)
    /\ lines[3] = DoneLine(W(0), "def", Secs0500)
    /\ worker_states = <<>>
    /\ store.asset_imports = <<>>

\* the importer type claimed for the import worker w started on line from,
\* completed behind line n: the first token on a '[Workerw] (T)' line behind
\* the start line that is not -1 and ends in Importer; by the path's
\* extension when there is none
ClaimedImporter(ls, from, n, w) ==
    LET toks == {k \in (from + 1)..n :
                    /\ ls[k].w = <<w>> /\ ls[k].kind = "imp"
                    /\ ls[k].imp # "-1" /\ EndsWithImporter(ls[k].imp)}
    IN IF toks = {} THEN importer_map(Suffix(ls[from].path))
       ELSE ls[CHOOSE k \in toks : \A j \in toks : k <= j].imp

\* C27: the importer type of the event emitted at a worker's completion is
\* the first token T on a '[WorkerN] (T)' line since the worker's start line
\* that is not -1 and ends in Importer: invalid tokens leave the importer
\* unset, a token behind a valid one does not change it, and without a valid
\* token the importer is the one looked up from the path's extension.
C27_WorkerImporterFirstValidToken ==
    [][(WorkerCompletionStep /\ pc' = "pass") =>
          LET w == WorkerNum(lines[i + 1])
              from == StartedLine(lines, i, w)
          IN \A e \in Range(NewImportEvents) :
                /\ from # 0
                /\ e.importer_type = ClaimedImporter(lines, from, i, w)]_vars

\* worker 0 started the import of a.asset, a '(T)' line with an invalid token
\* and one with TextureImporter followed, and the completion line emitted the
\* event with importer TextureImporter
C27_Witness ==
    /\ pc = "pass" /\ i = 4
    /\ lines[1] = Bare(W(0), AssetPath, "abc")
    /\ lines[2] \in {ImpLine(W(0), "-1"), ImpLine(W(0), "Foo")}
    /\ lines[3] = ImpLine(W(0), "TextureImporter")
    /\ lines[4] = DoneLine(W(0), "def", Secs0500)
    /\ Len(store.asset_imports) = 1
    /\ store.asset_imports[1].importer_type = "TextureImporter"

\* a line without a worker prefix that reads 'Start importing P using
\* Guid(G) (I)' and nothing behind it
UntimedImporterStart(l) ==
    /\ ~HasWorker(l) /\ l.kind = "start"
    /\ l.imp # None /\ l.imp \notin NonWordTokens
    /\ l.art = None /\ l.secs = NoSecs /\ l.guid2 = None

\* the pending table holds the entry that line n stored for line l
PendingHolds(pend, n, l) ==
    \E k \in 1..Len(pend) :
        pend[k] = [guid |-> l.guid, asset_path |-> l.path, line_number |-> n,
                   importer_type |-> l.imp]

\* C28 as claimed: every non-worker 'Start importing P using Guid(G) (I)'
\* line without timing, for every importer type, is stored in the pending
\* table and emits no AssetImportEvent at that line.
C28_EveryUntimedStartPending ==
    [][(pc = "pass" /\ i' = i + 1 /\ UntimedImporterStart(lines[i + 1])) =>
          /\ PendingHolds(pending_imports', i + 1, lines[i + 1])
          /\ NewImportEvents = <<>>]_vars

\* C28, amended: such a line is stored in the pending table and emits no
\* event at that line when its importer is VideoClipImporter, AudioImporter
\* or MovieImporter, and when the folder rule discards it (DefaultImporter on
\* a path without extension); for every other importer type it leaves the
\* pending table as it is and emits at once one AssetImportEvent at that
\* line, with the line's path, guid and importer, no artifact id and the
\* nominal duration of 1 ms.
C28_UntimedStartPendingOrPlaceholder ==
    [][(pc = "pass" /\ i' = i + 1 /\ UntimedImporterStart(lines[i + 1])) =>
          LET l == lines[i + 1] IN
          IF \/ l.imp \in {"VideoClipImporter", "AudioImporter", "MovieImporter"}
             \/ l.imp = "DefaultImporter" /\ ~HasDot(l.path)
          THEN /\ PendingHolds(pending_imports', i + 1, l)
               /\ NewImportEvents = <<>>
          ELSE /\ pending_imports' = pending_imports
               /\ Len(NewImportEvents) = 1
               /\ NewImportEvents[1].line_number = i + 1
               /\ NewImportEvents[1].asset_path = l.path
               /\ NewImportEvents[1].guid = l.guid
               /\ NewImportEvents[1].importer_type = l.imp
               /\ NewImportEvents[1].artifact_id = None
               /\ NewImportEvents[1].import_time_ms = 1]_vars

\* a line with VideoClipImporter was stored as pending, and a line with
\* TextureImporter behind it emitted its placeholder event at once
C28_Witness ==
    /\ pc = "pass" /\ i = 2
    /\ lines[1] = Untimed(NoW, AssetPath, "aaa", "VideoClipImporter")
    /\ lines[2] = Untimed(NoW, AssetPath, "aaa", "TextureImporter")
    /\ Len(pending_imports) = 1 /\ pending_imports[1].line_number = 1
    /\ Len(store.asset_imports) = 1
    /\ store.asset_imports[1].line_number = 2
    /\ store.asset_imports[1].import_time_ms = 1

\* a non-worker 'Start importing P using Guid(G) (I)' line without timing
\* whose importer is VideoClipImporter, AudioImporter or MovieImporter
MultiLineStart(l) ==
    /\ UntimedImporterStart(l)
    /\ l.imp \in {"VideoClipImporter", "AudioImporter", "MovieImporter"}

Populated(b, f) ==
    CASE f = "imports" -> b.imports_total # Null /\ b.imports_actual # Null
      [] f = "process" -> b.asset_db_process_time_ms # Null
      [] f = "callback" -> b.asset_db_callback_time_ms # Null
      [] f = "scripting" ->
            /\ b.domain_reloads # Null /\ b.domain_reload_time_ms # Null
            /\ b.compile_time_ms # Null /\ b.scripting_other_ms # Null

\* the summary field f appears on one of the 10 lines behind line n
WithinTenLines(ls, n, f) ==
    \E k \in 1..Len(ls) :
        /\ k > n /\ k <= n + 10
        /\ ls[k].kind = "summary" /\ ls[k].ok /\ ls[k].field = f

\* C30: a summary field (import counts, asset-database process time,
\* asset-database callback time, scripting figures) is populated on the
\* PipelineRefreshEvent of a refresh header when it appears on one of the 10
\* lines behind the header, the 10th included, and is left null when it
\* appears only on the 11th line or later.
C30_SummaryWithinTenLines ==
    \A n \in 1..Len(lines) :
        (Started /\ pc # "raised" /\ i >= n /\ lines[n].kind = "refresh") =>
            /\ Len(RefreshEventsAt(n)) = 1
            /\ \A f \in {"imports", "process", "callback", "scripting"} :
                  Populated(RefreshEventsAt(n)[1].breakdown, f)
                      <=> WithinTenLines(lines, n, f)

\* figure k of the summary line l stands on the line
FigurePresent(l, k) ==
    IF "present" \in DOMAIN l THEN k \in l.present ELSE l.ok

\* figure k of a summary line of field f, in the breakdown b
FigureOf(b, f, k) ==
    CASE f = "imports" /\ k = 1 -> b.imports_total
      [] f = "imports" /\ k = 2 -> b.imports_actual
      [] f = "scripting" /\ k = 1 -> b.domain_reloads
      [] f = "scripting" /\ k = 2 -> b.domain_reload_time_ms
      [] f = "scripting" /\ k = 3 -> b.compile_time_ms
      [] f = "scripting" /\ k = 4 -> b.scripting_other_ms

\* C31: the breakdown fields of a PipelineRefreshEvent are independently
\* nullable: domain-reload count, domain-reload time, compile time and other
\* time, and import total and import actual, are each populated whenever
\* their own figure stands on a summary line of the scanned window, whether
\* or not the other figures of that line are there.
C31_FiguresIndependent ==
    \A n \in 1..Len(lines) :
        (Started /\ pc # "raised" /\ i >= n /\ lines[n].kind = "refresh") =>
            \A m \in WindowBehind(lines, n) :
                (lines[m].kind = "summary"
                 /\ lines[m].field \in {"imports", "scripting"}) =>
                    \A k \in 1..Len(lines[m].nums) :
                        FigurePresent(lines[m], k) =>
                            FigureOf(RefreshEventsAt(n)[1].breakdown,
                                     lines[m].field, k) # Null

\* the operations rows that the step writes
NewOperations ==
    SubSeq(store'.operations, Len(store.operations) + 1, Len(store'.operations))

\* C32: every line of the generic operation grammar, whatever its type text,
\* that no extractor of higher priority claims (no worker prefix, outside
\* domain-reload mode) and whose duration is a number, yields exactly one
\* OperationEvent with its type and name, duration_ms = 1000 * N, and the
\* memory figure when present, null otherwise.
C32_EveryOperationLineYieldsEvent ==
    [][(/\ pc = "pass" /\ i' = i + 1 /\ ~in_domain_reload
        /\ lines[i + 1].kind = "op" /\ ~HasWorker(lines[i + 1])
        /\ FloatOk(lines[i + 1].secs)) =>
          NewOperations =
            << [log_id |-> log_id, line_number |-> i + 1,
                operation_type |-> [prefix |-> NoW, text |-> lines[i + 1].typ],
                operation_name |-> lines[i + 1].name,
                duration_ms |-> Ms(lines[i + 1].secs),
                memory_mb |-> lines[i + 1].mem] >>]_vars

\* the tables of the event records, one per record family
Families ==
    {"asset_imports", "pipeline_refreshes", "domain_reload_steps",
     "script_compilation", "telemetry_data", "operations"}

\* the number of rows the step adds to table f
NewCount(f) == Len(store'[f]) - Len(store[f])

\* the step ends domain-reload mode
EndsDomainReload == in_domain_reload /\ ~in_domain_reload'

\* C33: processing one input line emits records of at most one record
\* family, and at most one record in total unless they are the
\* DomainReloadSteps flushed by the line that ends a domain-reload block; a
\* line that matches none of the grammars emits no event record of its own
\* and changes neither the worker table nor the pending table nor the
\* domain-reload state, other than possibly ending domain-reload mode (and
\* flushing its block).
C33_FirstMatchWinsPerLine ==
    [][(pc = "pass" /\ i' = i + 1) =>
          /\ \A f \in Families :
                SubSeq(store'[f], 1, Len(store[f])) = store[f]
          /\ Cardinality({f \in Families : NewCount(f) > 0}) <= 1
          /\ \A f \in Families :
                NewCount(f) > 1 => f = "domain_reload_steps" /\ EndsDomainReload
          /\ lines[i + 1].kind \in {"plain", "text"} =>
                /\ \A f \in Families \ {"domain_reload_steps"} : NewCount(f) = 0
                /\ NewCount("domain_reload_steps") > 0 => EndsDomainReload
                /\ worker_states' = worker_states
                /\ pending_imports' = pending_imports
                /\ \/ EndsDomainReload
                   \/ /\ in_domain_reload' = in_domain_reload
                      /\ domain_reload_lines' = domain_reload_lines
                      /\ domain_reload_start' = domain_reload_start]_vars

\* a header, a step line and a plain line: the plain line ended the block,
\* which flushed two steps and no other record
C33_Witness ==
    /\ pc = "pass" /\ i = 3
    /\ lines[1] = DrHdrLine(NoW, TRUE)
    /\ lines[2] = StepLine(1)
    /\ lines[3] = PlainLine(NoW)
    /\ ~in_domain_reload
    /\ Len(store.domain_reload_steps) = 2
    /\ \A f \in Families \ {"domain_reload_steps"} : store[f] = <<>>

\* the header of the session row of the running parse, and the log's place
SessionHeader == store.log_metadata[log_id].header

\* the positions of the scanned lines
Scanned == 1..(IF Len(lines) < HeaderScanLines THEN Len(lines) ELSE HeaderScanLines)

\* C34: whenever one of the scanned lines carries a '-projectpath <path>'
\* argument, the session's project name is the last directory of the path of
\* such a line, also when a 'Successfully changed project path to:' message
\* naming another project stands on an earlier line.
C34_ProjectPathArgumentPreferred ==
    (Started /\ log_id >= 1) =>
        ((\E k \in Scanned : lines[k].kind = "projectpath") =>
            \E k \in Scanned : /\ lines[k].kind = "projectpath"
                               /\ SessionHeader.project_name = lines[k].val)

HeaderFields == {"unity_version", "platform", "architecture", "project_name"}

\* the kind of the lines that a field's extractor matches
MatchesField(field, l) ==
    \/ field = "unity_version" /\ l.kind = "version"
    \/ field = "platform" /\ l.kind = "platform"
    \/ field = "architecture" /\ l.kind = "arch"
    \/ field = "project_name" /\ l.kind \in {"projectpath", "changedpath"}

\* the scanned lines that match the field, and those that give it a
\* non-empty value
MatchesOf(field) == {k \in Scanned : MatchesField(field, lines[k])}
NonEmptyMatchesOf(field) == {k \in MatchesOf(field) : lines[k].val # ""}

Min(S) == CHOOSE k \in S : \A m \in S : k <= m

\* the place of the log gives a project name
PlaceNamesProject ==
    /\ store.log_metadata[log_id].log_file.editor_log
    /\ store.log_metadata[log_id].log_file.project_dir

\* C35 as stated: each header field is the value of its own first match among
\* the scanned lines, whatever the other fields do and whatever lines follow,
\* and is null when no scanned line matches it.
C35_EachFieldFirstMatch ==
    (Started /\ log_id >= 1) =>
        \A field \in HeaderFields :
            IF MatchesOf(field) # {}
            THEN SessionHeader[field] = lines[Min(MatchesOf(field))].val
            ELSE SessionHeader[field] = None

\* C35: each header field is the value of its own first match with a
\* non-empty value among the scanned lines, whatever the other fields do and
\* whatever lines follow; without such a match, version, platform and
\* architecture are null, and the project name is the name of the log's parent
\* directory when the log's place names a project, else empty when a scanned
\* line gave an empty name, else null.
C35_EachFieldFirstNonEmptyMatch ==
    (Started /\ log_id >= 1) =>
        \A field \in HeaderFields :
            IF NonEmptyMatchesOf(field) # {}
            THEN SessionHeader[field] = lines[Min(NonEmptyMatchesOf(field))].val
            ELSE IF field = "project_name" /\ PlaceNamesProject
            THEN SessionHeader[field] = store.log_metadata[log_id].log_file.parent
            ELSE IF MatchesOf(field) # {} THEN SessionHeader[field] = ""
            ELSE SessionHeader[field] = None

\* the version resolved on line 1 and the project name on line 2, and the
\* architecture named behind the scanned lines stayed null
C35_Witness ==
    /\ pc = "done" /\ Len(lines) = HeaderScanLines + 1
    /\ lines[1] = HeaderLine("version", "2022.3.1f1")
    /\ lines[HeaderScanLines] = HeaderLine("projectpath", "Game")
    /\ lines[HeaderScanLines + 1] = HeaderLine("arch", "arm64")
    /\ SessionHeader.unity_version = "2022.3.1f1"
    /\ SessionHeader.project_name = "Game"
    /\ SessionHeader.architecture = None

\* the line types by priority, and for each what the line must hold
ClassPriority ==
    << [type |-> "error", any |-> {"error", "exception"}],
       [type |-> "warning", any |-> {"warning"}],
       [type |-> "system", any |-> {"["}],
       [type |-> "import", any |-> {"Start importing"}],
       [type |-> "pipeline", any |-> {"Asset Pipeline Refresh"}],
       [type |-> "domain_reload", any |-> {"Domain Reload"}],
       [type |-> "telemetry", any |-> {"##utp:"}] >>

\* the positions of the priority list that the line satisfies
Satisfied(l) ==
    {k \in 1..Len(ClassPriority) : ClassPriority[k].any \cap line_features(l) # {}}

\* the leading tab characters of a line of the model
LeadingTabs(l) ==
    IF l.kind = "text" THEN l.tabs ELSE IF l.kind = "step" THEN l.depth ELSE 0

\* C36: every ClassifiedLine has the type of the first entry of the priority
\* error/exception, warning, leading '[', 'Start importing', 'Asset Pipeline
\* Refresh', 'Domain Reload', telemetry marker that its line satisfies, and
\* normal when it satisfies none; is_error and is_warning are never both set,
\* is_error holds exactly when the type is error, is_warning exactly when it
\* is warning, and the indent depth is the number of leading tabs.
C36_ClassificationFirstMatchWins ==
    \A k \in 1..Len(store.log_lines) :
        LET row == store.log_lines[k]
            sat == Satisfied(row.content)
        IN /\ row.class.line_type =
                 IF sat = {} THEN "normal" ELSE ClassPriority[Min(sat)].type
           /\ ~(row.class.is_error /\ row.class.is_warning)
           /\ row.class.is_error <=> row.class.line_type = "error"
           /\ row.class.is_warning <=> row.class.line_type = "warning"
           /\ row.class.indent_level = LeadingTabs(row.content)

\* the lines were stored: one that holds every feature is an error and not a
\* warning, a tabbed one that holds 'warning' and the telemetry marker is a
\* warning of depth 1, a tabbed one that holds nothing is normal
C36_Witness ==
    /\ pc = "done" /\ Len(store.log_lines) = 3
    /\ store.log_lines[1].content =
          TextLine(0, {"error", "exception", "warning", "[", "Start importing",
                       "Asset Pipeline Refresh", "Domain Reload", "##utp:"})
    /\ store.log_lines[1].class =
          [line_type |-> "error", indent_level |-> 0, is_error |-> TRUE,
           is_warning |-> FALSE]
    /\ store.log_lines[2].content = TextLine(1, {"warning", "##utp:"})
    /\ store.log_lines[2].class =
          [line_type |-> "warning", indent_level |-> 1, is_error |-> FALSE,
           is_warning |-> TRUE]
    /\ store.log_lines[3].content = TextLine(MaxTabs, {})
    /\ store.log_lines[3].class.line_type = "normal"
    /\ store.log_lines[3].class.indent_level = MaxTabs

\* the session row of the running parse is in the store
SessionExists == log_id >= 1 /\ Len(store.log_metadata) >= log_id

\* C37: within one parse run the Session record is created before any event
\* record; event records are written only by the steps of the forward pass;
\* the ClassifiedLine records are written only after the last line has been
\* dispatched; the session's parse duration is set once, after the
\* ClassifiedLines; and no other Session attribute changes after creation.
C37_WriteOrder ==
    [][/\ (\E f \in Families : store'[f] # store[f]) =>
              /\ pc = "pass" /\ i < Len(lines) /\ i' = i + 1
              /\ SessionExists
              /\ store.log_lines = <<>>
              /\ \A f \in Families :
                    \A k \in Len(store[f]) + 1 .. Len(store'[f]) :
                        store'[f][k].log_id = log_id
       /\ store'.log_lines # store.log_lines =>
              /\ pc = "pass" /\ i = Len(lines) /\ pc' = "stored"
              /\ SessionExists
              /\ store.log_metadata[log_id].total_parse_time_ms = None
              /\ \A f \in Families : store'[f] = store[f]
       /\ (SessionExists /\ store'.log_metadata # store.log_metadata) =>
              /\ pc = "stored" /\ pc' = "done"
              /\ Len(SelectSeq2(store.log_lines, log_id)) = Len(lines)
              /\ store.log_metadata[log_id].total_parse_time_ms = None
              /\ store'.log_metadata =
                    [store.log_metadata EXCEPT ![log_id].total_parse_time_ms = "set"]
       /\ (~SessionExists /\ store'.log_metadata # store.log_metadata) =>
              /\ \A f \in Families : store[f] = <<>> /\ store'[f] = <<>>
              /\ store'.log_lines = <<>>
              /\ Len(store'.log_metadata) = 1
              /\ store'.log_metadata[1].total_parse_time_ms = None]_vars

\* a parse of three lines is over: an event record, three ClassifiedLines and
\* the parse duration are in the store
C37_Witness ==
    /\ pc = "done" /\ Len(lines) = 3
    /\ Len(store.operations) >= 1
    /\ Len(store.log_lines) = 3
    /\ store.log_metadata[log_id].total_parse_time_ms = "set"

\* the call that the step makes returned r
Returned(r) == calls' = Append(calls, r)

\* C38: every get_new_lines call that observes the file's size to be smaller
\* than last_position returns was_reset = TRUE and lines that start at
\* offset 0 of the file, and leaves last_position inside the file as it is;
\* and no call that returns was_reset = FALSE rewinds last_position to 0.
C38_ResetRewindsAndFlags ==
    [][\A r \in {calls'[k] : k \in Len(calls) + 1 .. Len(calls')} :
          /\ (file.exists /\ Len(file.content) < last_position) =>
                /\ r.was_reset
                /\ last_position' <= Len(file.content)
                /\ r.lines # <<>> => r.lines[1] = split_lines(file.content)[1]
          /\ ~r.was_reset => ~(last_position > 0 /\ last_position' = 0)]_vars

\* the lines of the lists that the calls returned, one list behind the other
RECURSIVE AllReturned(_)
AllReturned(cs) ==
    IF cs = <<>> THEN <<>> ELSE Head(cs).lines \o AllReturned(Tail(cs))

\* the complete (newline-terminated) lines of a text
CompleteLines(text) ==
    LET parts == split_lines(text) IN SubSeq(parts, 1, Len(parts) - 1)

\* the text appended to the file since the watcher was created
AppendedText == SubSeq(file.content, watch.start + 1, Len(file.content))

IsPrefix(s, q) == Len(s) <= Len(q) /\ SubSeq(q, 1, Len(s)) = s

\* C39: while the file is not truncated, the lines returned by the calls so
\* far are the first of the complete lines appended since the watcher was
\* created, in their order, and all of them once a call has read up to the
\* end of the file: no line is lost, split, duplicated or invented.
C39_ReturnedLinesAreAppendedLines ==
    (watch.created /\ ~watch.truncated) =>
        /\ IsPrefix(AllReturned(calls), CompleteLines(AppendedText))
        /\ last_position = Len(file.content) =>
              AllReturned(calls) = CompleteLines(AppendedText)

====
